---- MODULE Spec2Model ----
(***************************************************************************)
(* Entity lifecycle and relational integrity of the mentorship platform:   *)
(* enrollment and lesson completion, subscription and payment review,      *)
(* admin plan management.  The relational schema (tables, defaults, enums, *)
(* unique indexes) and the plan route are translated from the sources;     *)
(* handlers whose route files are not among the sources follow the         *)
(* written design and are marked as such where they are defined.           *)
(***************************************************************************)
EXTENDS Integers, Sequences, FiniteSets, TLC

VARIABLES
    enrollments,    \* table "Enrollment"
    completions,    \* table "LessonCompletion"
    callers,        \* enroll requests in flight, per caller
    plans,          \* table "Plan"
    subscriptions,  \* table "Subscription"
    paymentProofs,  \* table "PaymentProof"
    selectedPlan,   \* SubscribePlan: useState<Plan | null>
    paymentProof,   \* SubscribePlan: useState<File | null>
    toast,          \* the last toast shown
    console,        \* the last pair of lines written to the console
    resp,           \* the last response a handler returned
    userEvents,     \* table "UserEvent"
    registering,    \* register requests in flight, per caller
    route,          \* the page the router was last pushed to
    assessments,    \* table "career_assessments"
    analytics,      \* table "career_analytics"
    completing,     \* completeAssessment calls in flight, per caller
    feedbacks,      \* table "user_feedback"
    currentSession, \* EventsPage: useSession().data
    statusQueries,  \* EventsPage: the useRegistrationStatus query of each card
    unregistering,  \* EventsPage: unregister requests in flight
    isEnrolling,    \* EnrollButton: useState(false)
    runs,           \* EnrollButton: runs of handleEnroll that have not settled
    refreshed,      \* EnrollButton: did the last run call router.refresh()?
    store           \* the rows of all tables, as their foreign keys see them

vars == <<enrollments, completions, callers, plans, subscriptions,
          paymentProofs, selectedPlan, paymentProof, toast, console, resp,
          userEvents, registering, route, assessments, analytics, completing,
          feedbacks, currentSession, statusQueries, unregistering, isEnrolling,
          runs, refreshed, store>>

planVars == <<plans>>

subVars == <<subscriptions, paymentProofs>>

clientVars == <<selectedPlan, paymentProof, toast, console>>

eventVars == <<userEvents, registering, route>>

\* The tables and pages of the other features.
careerVars == <<assessments, analytics, completing, feedbacks>>

cardVars == <<currentSession, statusQueries, unregistering>>

buttonVars == <<isEnrolling, runs, refreshed>>

pageVars == <<cardVars, buttonVars>>

otherVars == <<eventVars, careerVars, store, pageVars>>

courseVars == <<enrollments, completions, callers>>

otherThanEnroll == <<planVars, subVars, clientVars, otherVars>>

otherThanEvent ==
    <<courseVars, planVars, subVars, careerVars, store, pageVars>>

otherThanCareer ==
    <<courseVars, planVars, subVars, clientVars, eventVars, store, pageVars>>

otherThanStore ==
    <<courseVars, planVars, subVars, clientVars, eventVars, careerVars,
      pageVars>>

\* ------------------------------------------------------------------ bounds

\* Concurrent callers of the enroll endpoint.
NumCallers == 2
\* Lessons of course "c1".
NumLessons == 3
\* Clock readings a handler can observe (1..MaxTime).
MaxTime == 2
\* Rows the "Plan" table may hold.
MaxPlans == 2
\* Rows the "Subscription" table may hold.
MaxSubs == 2
\* Rows the "career_assessments" table may hold.
MaxAssessments == 2
\* Rows all tables together may hold when their foreign keys are exercised.
MaxRows == 6

\* ------------------------------------------------------------------ schema

\* A nullable TIMESTAMP column that holds no value.
NULL == 0

Times == 1..MaxTime

Callers == 1..NumCallers

\* Rows of "User" and "Course" that exist (ids only).
Users == {"u1", "u2"}

Courses == {"c1", "c2"}

\* Rows of "Lesson": course c1 has NumLessons lessons, course c2 has one.
Lesson ==
    {[id |-> <<"c1", k>>, courseId |-> "c1", order |-> k] : k \in 1..NumLessons}
    \cup {[id |-> <<"c2", 1>>, courseId |-> "c2", order |-> 1]}

LessonsOf(courseId) == {l \in Lesson : l.courseId = courseId}

\* CREATE UNIQUE INDEX "Enrollment_userId_courseId_key": TRUE when the index
\* admits a new row with this key.
Enrollment_no_unique_key(rows, userId, courseId) == TRUE

Enrollment_userId_courseId_key(rows, userId, courseId) ==
    ~ \E r \in rows : r.userId = userId /\ r.courseId = courseId

\* CREATE UNIQUE INDEX "LessonCompletion_enrollmentId_lessonId_key".
LessonCompletion_no_unique_key(rows, enrollmentId, lessonId) == TRUE

LessonCompletion_enrollmentId_lessonId_key(rows, enrollmentId, lessonId) ==
    ~ \E r \in rows : r.enrollmentId = enrollmentId /\ r.lessonId = lessonId

\* A fresh primary key ("id" TEXT NOT NULL, Enrollment_pkey): the key columns
\* and the number of rows already holding them.
EnrollmentId(rows, userId, courseId) ==
    <<userId, courseId,
      Cardinality({r \in rows : r.userId = userId /\ r.courseId = courseId})>>

LessonCompletionId(rows, enrollmentId, lessonId) ==
    <<enrollmentId, lessonId,
      Cardinality({r \in rows : r.enrollmentId = enrollmentId
                                /\ r.lessonId = lessonId})>>

\* A new "Enrollment" row with the column defaults:
\* "progress" INTEGER NOT NULL DEFAULT 0, "completedAt" TIMESTAMP(3) (null).
NewEnrollmentCompleted(id, userId, courseId) ==
    [id |-> id, userId |-> userId, courseId |-> courseId,
     progress |-> 100, completedAt |-> NULL]

NewEnrollmentStamped(id, userId, courseId) ==
    [id |-> id, userId |-> userId, courseId |-> courseId,
     progress |-> 0, completedAt |-> 1]

NewEnrollment(id, userId, courseId) ==
    [id |-> id, userId |-> userId, courseId |-> courseId,
     progress |-> 0, completedAt |-> NULL]

\* EnrolledCourses: the label of a course card's link.
CourseLinkLabel(progress) ==
    IF progress = 100 THEN "Review Course" ELSE "Continue Course"

NoToast == [title |-> "none"]

Response(op, status) == [op |-> op, status |-> status]

\* ------------------------------------------------------------- JSON values

\* Values of a request body.  A number n is held in hundredths (49.99 is
\* 4999, 1.5 is 150); a numeric string is held as its characters.
Scale == 100

Undefined == [t |-> "undefined"]

JsNull == [t |-> "null"]

NaN == [t |-> "nan"]

Num(n) == [t |-> "number", v |-> n]

Str(s) == [t |-> "string", v |-> s]

Arr(a) == [t |-> "array", v |-> a]

Digits == <<"0", "1", "2", "3", "4", "5", "6", "7", "8", "9">>

DigitValues == [d \in 1..10 |-> d - 1]

DigitChars == {Digits[d] : d \in 1..10}

IsDigit(c) == c \in DigitChars

DigitValue(c) == DigitValues[CHOOSE d \in 1..10 : Digits[d] = c]

\* The index just past the run of white space, or of digits, that starts at i.
RECURSIVE SpaceEnd(_, _)
SpaceEnd(s, i) ==
    IF i <= Len(s) /\ s[i] = " " THEN SpaceEnd(s, i + 1) ELSE i

RECURSIVE DigitsEnd(_, _)
DigitsEnd(s, i) ==
    IF i <= Len(s) /\ IsDigit(s[i]) THEN DigitsEnd(s, i + 1) ELSE i

\* The value of the digits s[i..j-1].
RECURSIVE DigitsValue(_, _, _)
DigitsValue(s, i, j) ==
    IF i >= j THEN 0 ELSE DigitsValue(s, i, j - 1) * 10 + DigitValue(s[j - 1])

RECURSIVE NatToString(_)
NatToString(k) ==
    IF k < 10 THEN <<Digits[k + 1]>>
    ELSE NatToString(k \div 10) \o <<Digits[(k % 10) + 1]>>

\* String(n) of a number: sign, integer part, and the fraction if there is one.
NumberToString(n) ==
    LET a == IF n < 0 THEN -n ELSE n
        frac == a % Scale
        d1 == frac \div 10
        d2 == frac % 10
    IN (IF n < 0 THEN <<"-">> ELSE <<>>)
       \o NatToString(a \div Scale)
       \o (IF frac = 0 THEN <<>>
           ELSE <<".", Digits[d1 + 1]>>
                \o (IF d2 = 0 THEN <<>> ELSE <<Digits[d2 + 1]>>))

\* String(x) as parseFloat and parseInt see their argument.
JsToString(x) ==
    CASE x.t = "string" -> x.v
      [] x.t = "number" -> NumberToString(x.v)
      [] x.t = "undefined" ->
            <<"u", "n", "d", "e", "f", "i", "n", "e", "d">>
      [] OTHER -> <<"n", "u", "l", "l">>

\* Where the number starts once white space and a sign are skipped.
SignAt(s) == SpaceEnd(s, 1)

HasSign(s) == SignAt(s) <= Len(s) /\ s[SignAt(s)] \in {"-", "+"}

Negative(s) == SignAt(s) <= Len(s) /\ s[SignAt(s)] = "-"

NumberAt(s) == IF HasSign(s) THEN SignAt(s) + 1 ELSE SignAt(s)

\* parseInt(x): the longest prefix of String(x) that is an integer, else NaN.
parseInt(x) ==
    LET s == JsToString(x)
        i == NumberAt(s)
        j == DigitsEnd(s, i)
        n == DigitsValue(s, i, j) * Scale
    IN IF j = i THEN NaN ELSE Num(IF Negative(s) THEN -n ELSE n)

\* parseFloat(x): the longest prefix of String(x) that is a decimal literal
\* (two fraction digits are kept), else NaN.
parseFloat(x) ==
    LET s == JsToString(x)
        i == NumberAt(s)
        j == DigitsEnd(s, i)
        dot == j <= Len(s) /\ s[j] = "."
        k == IF dot THEN DigitsEnd(s, j + 1) ELSE j
        f1 == IF dot /\ j + 1 < k THEN DigitValue(s[j + 1]) ELSE 0
        f2 == IF dot /\ j + 2 < k THEN DigitValue(s[j + 2]) ELSE 0
        n == DigitsValue(s, i, j) * Scale + f1 * 10 + f2
    IN IF j = i /\ (~dot \/ k = j + 1) THEN NaN
       ELSE Num(IF Negative(s) THEN -n ELSE n)

\* --------------------------------------------------------------- planSchema

Issue(path, code, message) == [path |-> path, code |-> code, message |-> message]

Received(x) ==
    IF x.t = "undefined" THEN "Required" ELSE "Expected another type"

\* z.string().min(1, message)
zString(path, x, message) ==
    IF x.t # "string" THEN <<Issue(path, "invalid_type", Received(x))>>
    ELSE IF x.v = "" THEN <<Issue(path, "too_small", message)>>
    ELSE <<>>

\* z.number().min(min, message), with .int() when int is set
zNumber(path, x, int, min, message) ==
    IF x.t # "number" THEN <<Issue(path, "invalid_type", Received(x))>>
    ELSE (IF int /\ x.v % Scale # 0
          THEN <<Issue(path, "invalid_type", "Expected integer, received float")>>
          ELSE <<>>)
         \o (IF x.v < min * Scale THEN <<Issue(path, "too_small", message)>>
             ELSE <<>>)

RECURSIVE zElements(_, _, _)
zElements(path, a, i) ==
    IF i > Len(a) THEN <<>>
    ELSE (IF a[i].t # "string"
          THEN <<Issue(path \o <<i - 1>>, "invalid_type", Received(a[i]))>>
          ELSE <<>>)
         \o zElements(path, a, i + 1)

\* z.array(z.string()).min(min, message)
zArray(path, x, min, message) ==
    IF x.t # "array" THEN <<Issue(path, "invalid_type", Received(x))>>
    ELSE (IF Len(x.v) < min THEN <<Issue(path, "too_small", message)>> ELSE <<>>)
         \o zElements(path, x.v, 1)

\* planSchema.parse(json): the issues of the ZodError it throws, in the
\* order of the schema's keys; none when json parses.
planSchemaFirstOnly(json) ==
    LET all == zString(<<"name">>, json.name, "Plan name is required")
               \o zString(<<"description">>, json.description,
                          "Description is required")
               \o zNumber(<<"price">>, json.price, FALSE, 0,
                          "Price must be non-negative")
               \o zNumber(<<"duration">>, json.duration, TRUE, 1,
                          "Duration must be at least 1")
               \o zArray(<<"services">>, json.services, 1,
                         "At least one service is required")
               \o zArray(<<"features">>, json.features, 0, "")
    IN IF all = <<>> THEN <<>> ELSE <<Head(all)>>

planSchema(json) ==
    zString(<<"name">>, json.name, "Plan name is required")
    \o zString(<<"description">>, json.description, "Description is required")
    \o zNumber(<<"price">>, json.price, FALSE, 0, "Price must be non-negative")
    \o zNumber(<<"duration">>, json.duration, TRUE, 1,
               "Duration must be at least 1")
    \o zArray(<<"services">>, json.services, 1, "At least one service is required")
    \o zArray(<<"features">>, json.features, 0, "")

\* ------------------------------------------------------------ POST /plans

\* CREATE TYPE "Role"
Role == {"USER", "ADMIN", "MENTOR", "TEAM_MEMBER"}

NoSession == [t |-> "null"]

Session(role) == [user |-> [role |-> role]]

Sessions == {NoSession} \cup {Session(r) : r \in Role}

\* A guard that tests only for a session.
UnauthorizedNoRoleTest(session) == session = NoSession

\* if (!session || session!.user!.role !== "ADMIN")
Unauthorized(session) ==
    session = NoSession \/ session.user.role # "ADMIN"

\* A request body that is no JSON text: req.json() throws.
Malformed == [t |-> "malformed"]

\* db.plan.create({ data }): the new row, with a fresh id and the creation
\* time of the store's clock (one tick per row).
db_plan_create(P, data) ==
    [id |-> Cardinality(P) + 1, createdAt |-> Cardinality(P) + 1,
     name |-> data.name.v, description |-> data.description.v,
     price |-> data.price.v, duration |-> data.duration.v \div Scale,
     services |-> data.services.v, features |-> data.features.v]

Json(status, body) == [status |-> status, body |-> body]

\* The part of POST that follows planSchema.parse: body is the coerced
\* payload and issues what the parse reported.
Validated(P, body, issues, fault) ==
    IF issues # <<>>
    THEN [plans |-> P, res |-> Json(400, [error |-> issues])]
    ELSE IF fault # "none"
    THEN [plans |-> P,
          res |-> Json(500, [error |-> <<"Internal Server Error", fault>>])]
    ELSE [plans |-> P \cup {db_plan_create(P, body)},
          res |-> Json(200, db_plan_create(P, body))]

\* json.price = parseFloat(json.price); json.duration = parseInt(json.duration)
Coerced(json) ==
    [json EXCEPT !.price = parseFloat(json.price),
                 !.duration = parseInt(json.duration)]

Parsed(P, body, fault) == Validated(P, body, planSchema(body), fault)

\* POST(req) on the table P: the table and the response it leaves.  A request
\* is its session, its body (json) and what the store does with a create
\* (fault: "none", or the message of the error it throws).
POST(P, session, json, fault) ==
    IF Unauthorized(session)
    THEN [plans |-> P, res |-> Json(401, [error |-> "Unauthorized"])]
    ELSE IF json = Malformed
    THEN [plans |-> P,
          res |-> Json(500, [error |-> <<"Internal Server Error", "SyntaxError">>])]
    ELSE IF json = JsNull
    THEN [plans |-> P,
          res |-> Json(500, [error |-> <<"Internal Server Error", "TypeError">>])]
    ELSE Parsed(P, Coerced(json), fault)

\* Request bodies: each field of the payload absent, of a wrong type, out of
\* range or in range.  Prices and durations are in hundredths.
Names == {Str(""), Str("Basic")}

Descriptions == {Str(""), Str("Essential mentorship services")}

Prices == {Num(-100), Num(0), Str(<<"4", "9", ".", "9", "9">>)}

Durations == {Undefined, Num(0), Num(100), Num(150), Str(<<"3", "0">>)}

ServiceLists ==
    {Arr(<<>>), Arr(<<Str("mentorship")>>), Arr(<<Num(700), Num(800)>>)}

FeatureLists == {Undefined, Arr(<<>>)}

Payloads ==
    [name : Names, description : Descriptions, price : Prices,
     duration : Durations, services : ServiceLists, features : FeatureLists]

Bodies == Payloads \cup {JsNull, Malformed}

\* The scenario's plan, without and with a features list, and two bodies
\* that are no object.
BasicPlan ==
    [name |-> Str("Basic"), description |-> Str("Essential mentorship services"),
     price |-> Str(<<"4", "9", ".", "9", "9">>), duration |-> Str(<<"3", "0">>),
     services |-> Arr(<<Str("mentorship")>>), features |-> Arr(<<>>)]

SampleBodies ==
    {BasicPlan, [BasicPlan EXCEPT !.features = Undefined], JsNull, Malformed}

\* What db.plan.create does: it stores the row, or throws this message.
Faults == {"none", "Can't reach database server"}

Admin == Session("ADMIN")

\* Who calls the admin-restricted operations: nobody signed in, a user, an admin.
Actors == {NoSession, Session("USER"), Admin}

PostPlan(session, json, fault) ==
    \E r \in {POST(plans, session, json, fault)} :
       /\ r.plans = plans \/ Cardinality(plans) < MaxPlans
       /\ plans' = r.plans
       /\ resp' = [op |-> "POST /plans", status |-> r.res.status,
                   issues |-> IF r.res.status = 400 THEN Len(r.res.body.error)
                              ELSE 0]
       /\ UNCHANGED <<otherVars, enrollments, completions, callers, subVars, clientVars>>

\* ------------------------------------------------------------- GET /plans

\* url.searchParams.get(name): null when the parameter is absent, else its text.
Params == {JsNull, Str(<<>>), Str(<<"0">>), Str(<<"1">>), Str(<<"2">>),
           Str(<<"3">>), Str(<<"-", "1">>), Str(<<"a", "b", "c">>)}

\* x || d of a parameter: null and "" are falsy.
OrDefault(x, d) == IF x = JsNull \/ x.v = <<>> THEN Str(d) ELSE x

\* parseInt of a parameter: NaN, or Num of an integer (not in hundredths).
IntOf(x) == IF parseInt(x) = NaN THEN NaN ELSE Num(parseInt(x).v \div Scale)

\* orderBy: { createdAt: "desc" }
RECURSIVE OrderByCreatedAtDesc(_)
OrderByCreatedAtDesc(P) ==
    IF P = {} THEN <<>>
    ELSE LET first == CHOOSE p \in P : \A q \in P : q.createdAt <= p.createdAt
         IN <<first>> \o OrderByCreatedAtDesc(P \ {first})

Min(a, b) == IF a < b THEN a ELSE b

Max(a, b) == IF a < b THEN b ELSE a

\* db.plan.findMany({ orderBy, skip, take }) for the arguments the client
\* accepts: take >= 0 counts from the start of the order, take < 0 from its
\* end.
findMany(P, skip, take) ==
    LET all == OrderByCreatedAtDesc(P)
        n == Len(all)
    IN IF take >= 0
       THEN SubSeq(all, skip + 1, Min(n, skip + take))
       ELSE SubSeq(all, Max(1, n - skip + take + 1), n - skip)

\* The arguments the client refuses, throwing a validation error.
findManyThrows(skip, take) == skip = NaN \/ take = NaN \/ skip.v < 0

\* plans.map((plan) => ({ id, name, description, price, duration, services,
\* features: plan.features || [] }))
formattedPlan(plan) ==
    [id |-> plan.id, name |-> plan.name, description |-> plan.description,
     price |-> plan.price, duration |-> plan.duration,
     services |-> plan.services, features |-> plan.features]

formattedPlans(rows) == [i \in 1..Len(rows) |-> formattedPlan(rows[i])]

\* Math.ceil(a / b) as JSON carries it: Infinity and NaN are written null.
CeilDiv(a, b) ==
    IF b = 0 THEN JsNull
    ELSE IF b > 0 THEN Num((a + b - 1) \div b)
    ELSE Num(-(a \div (-b)))

\* An off-by-one skip: page * pageSize.
SkipOfNextPage(page, pageSize) ==
    IF page = NaN \/ pageSize = NaN THEN NaN ELSE Num(page.v * pageSize.v)

\* const skip = (page - 1) * pageSize
Skip(page, pageSize) ==
    IF page = NaN \/ pageSize = NaN THEN NaN ELSE Num((page.v - 1) * pageSize.v)

\* The part of GET that follows the parsing of the parameters.
Listed(P, page, pageSize) ==
    IF findManyThrows(Skip(page, pageSize), pageSize)
    THEN Json(500, [error |-> "Internal Server Error"])
    ELSE Json(200,
              [plans |-> formattedPlans(findMany(P, Skip(page, pageSize).v,
                                                 pageSize.v)),
               pagination |-> [total |-> Cardinality(P),
                               pageCount |-> CeilDiv(Cardinality(P), pageSize.v),
                               currentPage |-> page.v,
                               pageSize |-> pageSize.v]])

\* GET(req) on the table P: the response.  A request is its session and its
\* page and pageSize parameters.
GET(P, session, page, pageSize) ==
    IF Unauthorized(session)
    THEN Json(401, [error |-> "Unauthorized"])
    ELSE Listed(P, IntOf(OrDefault(page, <<"1">>)),
                   IntOf(OrDefault(pageSize, <<"1", "0">>)))

GetPlans(session, page, pageSize) ==
    \E r \in {GET(plans, session, page, pageSize)} :
       /\ resp' = [op |-> "GET /plans", status |-> r.status,
                   returned |-> IF r.status = 200 THEN Len(r.body.plans) ELSE 0,
                   currentPage |-> IF r.status = 200
                                   THEN r.body.pagination.currentPage ELSE 0,
                   pageSize |-> IF r.status = 200
                                THEN r.body.pagination.pageSize ELSE 0]
       /\ UNCHANGED <<otherVars, enrollments, completions, callers, planVars, subVars,
                      clientVars>>

\* ------------------------------------------------- subscription and payment

\* CREATE TYPE "SubscriptionStatus" / "PaymentStatus"
SubscriptionStatus == {"ACTIVE", "EXPIRED", "CANCELLED", "PENDING"}

PaymentStatus == {"PENDING", "APPROVED", "REJECTED"}

\* The user who subscribes, and the URL the file storage returns for an
\* uploaded proof (NoFile: nothing was uploaded).
Subscriber == "u1"

NoFile == "none"

ProofUrls == {"https://files/proof-1.png"}

Outcome(S, PP, status) ==
    [subscriptions |-> S, paymentProofs |-> PP, status |-> status]

\* requestSubscription(user, plan, proofFile) on the tables P ("Plan"),
\* S ("Subscription") and PP ("PaymentProof"): a PENDING Subscription that
\* starts at the store's clock (one tick per row) and ends plan.duration days
\* later, and a PENDING PaymentProof that references it.
requestSubscription(P, S, PP, userId, planId, proofUrl) ==
    IF proofUrl = NoFile THEN Outcome(S, PP, "ValidationError")
    ELSE IF ~ \E pl \in P : pl.id = planId THEN Outcome(S, PP, "NotFoundError")
    ELSE LET plan == CHOOSE pl \in P : pl.id = planId
             start == Cardinality(S) + 1
             sub == [id |-> Cardinality(S) + 1, userId |-> userId,
                     planId |-> planId, startDate |-> start,
                     endDate |-> start + plan.duration, status |-> "PENDING"]
             proof == [id |-> Cardinality(PP) + 1, imageUrl |-> proofUrl,
                       status |-> "PENDING", userId |-> userId,
                       subscriptionId |-> sub.id]
         IN Outcome(S \cup {sub}, PP \cup {proof}, "Created")

\* The Subscription status a decision leads to.
Decided(decision) == IF decision = "APPROVED" THEN "ACTIVE" ELSE "CANCELLED"

\* A review that records the decision on the proof alone.
reviewPaymentProofOnly(S, PP, session, proofId, decision) ==
    IF Unauthorized(session) THEN Outcome(S, PP, "AuthorizationError")
    ELSE IF decision \notin {"APPROVED", "REJECTED"}
    THEN Outcome(S, PP, "ValidationError")
    ELSE IF ~ \E pr \in PP : pr.id = proofId THEN Outcome(S, PP, "NotFoundError")
    ELSE LET proof == CHOOSE pr \in PP : pr.id = proofId
             sub == CHOOSE su \in S : su.id = proof.subscriptionId
         IN IF sub.status # "PENDING" THEN Outcome(S, PP, "ConflictError")
            ELSE Outcome(S,
                         (PP \ {proof}) \cup {[proof EXCEPT !.status = decision]},
                         "OK")

\* A review that decides whatever the Subscription's status.
reviewPaymentAnyStatus(S, PP, session, proofId, decision) ==
    IF Unauthorized(session) THEN Outcome(S, PP, "AuthorizationError")
    ELSE IF decision \notin {"APPROVED", "REJECTED"}
    THEN Outcome(S, PP, "ValidationError")
    ELSE IF ~ \E pr \in PP : pr.id = proofId THEN Outcome(S, PP, "NotFoundError")
    ELSE LET proof == CHOOSE pr \in PP : pr.id = proofId
             sub == CHOOSE su \in S : su.id = proof.subscriptionId
         IN Outcome((S \ {sub}) \cup {[sub EXCEPT !.status = Decided(decision)]},
                    (PP \ {proof}) \cup {[proof EXCEPT !.status = decision]},
                    "OK")

\* reviewPayment(admin, paymentProofId, decision).  Only a PENDING Subscription
\* is decided; a review of a proof whose Subscription has left PENDING is
\* rejected and changes nothing.
reviewPayment(S, PP, session, proofId, decision) ==
    IF Unauthorized(session) THEN Outcome(S, PP, "AuthorizationError")
    ELSE IF decision \notin {"APPROVED", "REJECTED"}
    THEN Outcome(S, PP, "ValidationError")
    ELSE IF ~ \E pr \in PP : pr.id = proofId THEN Outcome(S, PP, "NotFoundError")
    ELSE LET proof == CHOOSE pr \in PP : pr.id = proofId
             sub == CHOOSE su \in S : su.id = proof.subscriptionId
         IN IF sub.status # "PENDING" THEN Outcome(S, PP, "ConflictError")
            ELSE Outcome((S \ {sub}) \cup {[sub EXCEPT !.status = Decided(decision)]},
                         (PP \ {proof}) \cup {[proof EXCEPT !.status = decision]},
                         "OK")

RequestSubscription(planId, proofUrl) ==
    \E r \in {requestSubscription(plans, subscriptions, paymentProofs,
                                  Subscriber, planId, proofUrl)} :
       /\ r.subscriptions = subscriptions \/ Cardinality(subscriptions) < MaxSubs
       /\ subscriptions' = r.subscriptions
       /\ paymentProofs' = r.paymentProofs
       /\ resp' = Response("requestSubscription", r.status)
       /\ UNCHANGED <<otherVars, enrollments, completions, callers, planVars, clientVars>>

ReviewPayment(session, proofId, decision) ==
    \E r \in {reviewPayment(subscriptions, paymentProofs,
                            session, proofId, decision)} :
       /\ subscriptions' = r.subscriptions
       /\ paymentProofs' = r.paymentProofs
       /\ resp' = Response("reviewPayment", r.status)
       /\ UNCHANGED <<otherVars, enrollments, completions, callers, planVars, clientVars>>

\* ------------------------------------------------------------ SubscribePlan

\* The hard-coded plans of the component and the files a user may pick.
ClientPlans == {[id |-> "1", name |-> "Basic", price |-> 4999],
                [id |-> "2", name |-> "Pro", price |-> 9999],
                [id |-> "3", name |-> "Enterprise", price |-> 19999]}

Files == {[name |-> "receipt.png"], [name |-> "transfer.jpg"]}

\* e.target.files: null, an empty FileList or a FileList of one file.
FileList(a) == [t |-> "FileList", v |-> a]

FileLists == {JsNull, FileList(<<>>)} \cup {FileList(<<f>>) : f \in Files}

\* !x of a state value of the component
Falsy(x) == x \in {JsNull, Undefined}

\* onClick={() => setSelectedPlan(plan)}
SelectPlan(plan) ==
    /\ selectedPlan' = plan
    /\ UNCHANGED <<otherVars, enrollments, completions, callers, planVars, subVars,
                   paymentProof, toast, console, resp>>

handleFileChange(files) ==
    /\ paymentProof' = IF files # JsNull
                       THEN IF Len(files.v) > 0 THEN files.v[1] ELSE Undefined
                       ELSE paymentProof
    /\ UNCHANGED <<otherVars, enrollments, completions, callers, planVars, subVars,
                   selectedPlan, toast, console, resp>>

\* Nothing is sent to a backend: the handler logs, toasts and resets.
handleSubscribe ==
    /\ IF Falsy(selectedPlan) \/ Falsy(paymentProof)
       THEN /\ toast' = [title |-> "Error",
                         description |-> "Please select a plan and upload payment proof.",
                         variant |-> "destructive"]
            /\ UNCHANGED <<selectedPlan, paymentProof, console>>
       ELSE /\ console' = <<<<"Subscribing to plan:", selectedPlan>>,
                            <<"Payment proof:", paymentProof>>>>
            /\ toast' = [title |-> "Subscription Submitted",
                         description |-> "Your subscription request has been submitted for approval."]
            /\ selectedPlan' = JsNull
            /\ paymentProof' = JsNull
    /\ UNCHANGED <<otherVars, enrollments, completions, callers, planVars, subVars, resp>>

\* ------------------------------------------------------------------ enroll

Idle == [pc |-> "idle"]

\* enroll(user, course), first half: the handler looks the pair up.  A pair
\* that is already enrolled is answered ConflictError at once.
EnrollBegin(p, userId, courseId) ==
    /\ callers[p] = Idle
    /\ IF \E r \in enrollments : r.userId = userId /\ r.courseId = courseId
       THEN /\ resp' = Response("enroll", "ConflictError")
            /\ UNCHANGED callers
       ELSE /\ callers' = [callers EXCEPT ![p] =
                  [pc |-> "insert", userId |-> userId, courseId |-> courseId]]
            /\ UNCHANGED resp
    /\ UNCHANGED <<enrollments, completions, otherThanEnroll>>

\* enroll, second half: the INSERT.  The unique index decides at commit time:
\* a duplicate key is answered ConflictError and nothing is stored.
EnrollCommit(p) ==
    /\ callers[p].pc = "insert"
    /\ LET u == callers[p].userId
           c == callers[p].courseId
       IN IF Enrollment_userId_courseId_key(enrollments, u, c)
          THEN /\ enrollments' = enrollments \cup
                     {NewEnrollment(EnrollmentId(enrollments, u, c), u, c)}
               /\ resp' = Response("enroll", "Created")
          ELSE /\ resp' = Response("enroll", "ConflictError")
               /\ UNCHANGED enrollments
    /\ callers' = [callers EXCEPT ![p] = Idle]
    /\ UNCHANGED <<completions, otherThanEnroll>>

\* ------------------------------------------------------------ EnrollButton

EnrolledToast ==
    [title |-> "Enrolled Successfully",
     description |-> "You have been enrolled in the course."]

EnrollFailedToast ==
    [title |-> "Error",
     description |-> "Failed to enroll in the course. Please try again.",
     variant |-> "destructive"]

\* <AlertDialogAction onClick={handleEnroll} disabled={isEnrolling}>
ConfirmDisabled == isEnrolling

\* A handleEnroll that resets isEnrolling at the end of its try block only.
handleEnrollNoFinally(pc) ==
    IF pc = "ok"
    THEN [toast |-> EnrolledToast, refresh |-> TRUE, isEnrolling |-> FALSE]
    ELSE [toast |-> EnrollFailedToast, refresh |-> FALSE, isEnrolling |-> TRUE]

\* handleEnroll after the fetch has settled: try, catch and finally.
handleEnrollSettled(pc) ==
    IF pc = "ok"
    THEN [toast |-> EnrolledToast, refresh |-> TRUE, isEnrolling |-> FALSE]
    ELSE [toast |-> EnrollFailedToast, refresh |-> FALSE, isEnrolling |-> FALSE]

\* A click on the confirm action: handleEnroll up to its await.  The button
\* is rendered for the signed-in user on the page of a course.
handleEnrollBegin(userId, courseId) ==
    /\ ~ConfirmDisabled
    /\ isEnrolling' = TRUE
    /\ runs' = runs \cup {[n |-> Cardinality(runs) + 1, userId |-> userId,
                           courseId |-> courseId, pc |-> "sent"]}
    /\ UNCHANGED <<refreshed, toast, enrollments, completions, callers,
                   planVars, subVars, selectedPlan, paymentProof, console,
                   resp, eventVars, careerVars, store, cardVars>>

\* POST /api/courses/enroll is served: enroll(user, course) stores the
\* enrollment and answers ok, or answers an error status and stores nothing
\* (always so when the pair is enrolled already).
ServeEnroll(run, ok) ==
    /\ run \in runs /\ run.pc = "sent"
    /\ ok => Enrollment_userId_courseId_key(enrollments, run.userId, run.courseId)
    /\ enrollments' =
          IF ok
          THEN enrollments \cup
                  {NewEnrollment(EnrollmentId(enrollments, run.userId,
                                              run.courseId),
                                 run.userId, run.courseId)}
          ELSE enrollments
    /\ runs' = (runs \ {run}) \cup
                  {[run EXCEPT !.pc = IF ok THEN "ok" ELSE "notOk"]}
    /\ UNCHANGED <<isEnrolling, refreshed, toast, completions, callers,
                   planVars, subVars, selectedPlan, paymentProof, console,
                   resp, eventVars, careerVars, store, cardVars>>

\* The fetch rejects: the request, or the response to it, is lost.
FetchThrows(run) ==
    /\ run \in runs /\ run.pc \in {"sent", "ok", "notOk"}
    /\ runs' = (runs \ {run}) \cup {[run EXCEPT !.pc = "threw"]}
    /\ UNCHANGED <<isEnrolling, refreshed, toast, enrollments, completions,
                   callers, planVars, subVars, selectedPlan, paymentProof,
                   console, resp, eventVars, careerVars, store, cardVars>>

\* The rest of a run of handleEnroll, once its fetch has settled.
handleEnrollEnd(run) ==
    /\ run \in runs /\ run.pc \in {"ok", "notOk", "threw"}
    /\ \E r \in {handleEnrollSettled(run.pc)} :
          /\ toast' = r.toast
          /\ refreshed' = r.refresh
          /\ isEnrolling' = r.isEnrolling
    /\ runs' = runs \ {run}
    /\ UNCHANGED <<enrollments, completions, callers, planVars, subVars,
                   selectedPlan, paymentProof, console, resp, eventVars,
                   careerVars, store, cardVars>>

\* ---------------------------------------------------------- completeLesson

CompletedCount(rows, enrollmentId) ==
    Cardinality({r \in rows : r.enrollmentId = enrollmentId})

\* progress = (completed lesson count / total lessons in course) x 100,
\* rounded down.
Progress(completedCount, totalLessons) == (100 * completedCount) \div totalLessons

\* completeLesson(enrollment, lesson) at clock reading t, one transaction on
\* the tables E ("Enrollment") and C ("LessonCompletion"): the tables and the
\* status it leaves.  The enrollment is named by its (user, course) pair; the
\* lesson must be one of that course.
completeLesson(E, C, userId, courseId, lessonId, t) ==
    LET es == {r \in E : r.userId = userId /\ r.courseId = courseId}
    IN IF es = {} \/ ~ \E l \in LessonsOf(courseId) : l.id = lessonId
       THEN [enrollments |-> E, completions |-> C, status |-> "NotFoundError"]
       ELSE LET e == CHOOSE r \in es : TRUE
            IN IF ~ LessonCompletion_enrollmentId_lessonId_key(C, e.id, lessonId)
               THEN [enrollments |-> E, completions |-> C,
                     status |-> "ConflictError"]
               ELSE LET done == C \cup
                            {[id |-> LessonCompletionId(C, e.id, lessonId),
                              enrollmentId |-> e.id, lessonId |-> lessonId]}
                        prog == Progress(CompletedCount(done, e.id),
                                         Cardinality(LessonsOf(courseId)))
                    IN [enrollments |-> (E \ {e}) \cup
                            {[e EXCEPT !.progress = prog,
                                       !.completedAt =
                                           IF prog = 100 THEN t ELSE e.completedAt]},
                        completions |-> done,
                        status |-> "OK"]

CompleteLesson(userId, courseId, lessonId, t) ==
    \E r \in {completeLesson(enrollments, completions,
                             userId, courseId, lessonId, t)} :
       /\ enrollments' = r.enrollments
       /\ completions' = r.completions
       /\ resp' = Response("completeLesson", r.status)
       /\ UNCHANGED <<callers, otherThanEnroll>>

\* ------------------------------------------------------------------ events

Events == {"e1", "e2"}

\* useSession(): nobody signed in, or a signed-in user.
UserSession(userId) == [user |-> [id |-> userId]]

UserSessions == {NoSession} \cup {UserSession(u) : u \in Users}

\* A "UserEvent" table without its primary key.
UserEvent_no_pkey(rows, userId, eventId) == TRUE

\* CONSTRAINT "UserEvent_pkey" PRIMARY KEY ("userId","eventId"): may this row
\* be inserted?
UserEvent_pkey(rows, userId, eventId) ==
    ~ \E r \in rows : r.userId = userId /\ r.eventId = eventId

UserEventsOf(UE, userId, eventId) ==
    {r \in UE : r.userId = userId /\ r.eventId = eventId}

\* The row an insert adds.  A table is a bag of rows: row tells the rows of
\* one pair apart, should the table hold several.
NewUserEvent(rows, userId, eventId) ==
    [userId |-> userId, eventId |-> eventId,
     row |-> Cardinality(UserEventsOf(rows, userId, eventId)) + 1]

\* isRegistered(user, event): does the row exist?
isRegistered(UE, userId, eventId) ==
    \E r \in UE : r.userId = userId /\ r.eventId = eventId

\* An unregister that answers OK and deletes nothing.
unregisterKeepsRow(UE, userId, eventId) ==
    [userEvents |-> UE,
     status |-> IF isRegistered(UE, userId, eventId) THEN "OK" ELSE "NotFoundError"]

\* unregisterForEvent(user, event) on the table UE: the table and the result.
unregisterForEvent(UE, userId, eventId) ==
    IF isRegistered(UE, userId, eventId)
    THEN [userEvents |-> UE \ UserEventsOf(UE, userId, eventId), status |-> "OK"]
    ELSE [userEvents |-> UE, status |-> "NotFoundError"]

RegisteredToast ==
    [title |-> "Successfully registered!",
     description |-> "You have been registered for the event."]

RegistrationFailedToast(message) ==
    [title |-> "Registration failed", description |-> message,
     variant |-> "destructive"]

UnregisteredToast ==
    [title |-> "Successfully unregistered!",
     description |-> "You have been unregistered from the event."]

UnregistrationFailedToast(message) ==
    [title |-> "Unregistration failed", description |-> message,
     variant |-> "destructive"]

\* handleRegister up to the server's look-up of the pair: without a session
\* the page goes to the login; a pair found registered is a conflict.
handleRegisterBegin(p, session, eventId) ==
    /\ registering[p] = Idle
    /\ IF session = NoSession
       THEN /\ route' = "/login?callbackUrl=/events"
            /\ UNCHANGED <<registering, toast, resp>>
       ELSE IF isRegistered(userEvents, session.user.id, eventId)
       THEN /\ toast' = RegistrationFailedToast("ConflictError")
            /\ resp' = Response("registerForEvent", "ConflictError")
            /\ UNCHANGED <<registering, route>>
       ELSE /\ registering' = [registering EXCEPT ![p] =
                                  [pc |-> "insert", userId |-> session.user.id,
                                   eventId |-> eventId]]
            /\ UNCHANGED <<toast, resp, route>>
    /\ UNCHANGED <<userEvents, otherThanEvent, selectedPlan, paymentProof,
                   console>>

\* The insert of a register request, and the rest of handleRegister.
handleRegisterCommit(p) ==
    /\ registering[p] # Idle
    /\ IF UserEvent_pkey(userEvents, registering[p].userId, registering[p].eventId)
       THEN /\ userEvents' = userEvents \cup
                   {NewUserEvent(userEvents, registering[p].userId,
                                 registering[p].eventId)}
            /\ resp' = Response("registerForEvent", "Created")
            /\ toast' = RegisteredToast
            /\ route' = "/dashboard/events"
       ELSE /\ resp' = Response("registerForEvent", "ConflictError")
            /\ toast' = RegistrationFailedToast("ConflictError")
            /\ UNCHANGED <<userEvents, route>>
    /\ registering' = [registering EXCEPT ![p] = Idle]
    /\ UNCHANGED <<otherThanEvent, selectedPlan, paymentProof, console>>

handleUnregister(userId, eventId) ==
    \E r \in {unregisterForEvent(userEvents, userId, eventId)} :
       /\ userEvents' = r.userEvents
       /\ resp' = Response("unregisterForEvent", r.status)
       /\ IF r.status = "OK"
          THEN toast' = UnregisteredToast /\ route' = "/events"
          ELSE toast' = UnregistrationFailedToast(r.status) /\ UNCHANGED route
       /\ UNCHANGED <<registering, otherThanEvent, selectedPlan, paymentProof,
                      console>>

\* What the request of the registration status does: it answers, or it fails.
RequestOutcomes == {"answered", "failed"}

\* A hook that takes a failed request for a registration.
useRegistrationStatusTrueOnError(UE, userId, eventId, outcome) ==
    IF outcome = "answered" THEN isRegistered(UE, userId, eventId) ELSE TRUE

\* queryFn of useRegistrationStatus: response.data.isRegistered, or false
\* when the request throws.
useRegistrationStatus(UE, userId, eventId, outcome) ==
    IF outcome = "answered" THEN isRegistered(UE, userId, eventId) ELSE FALSE

QueryRegistrationStatus(userId, eventId, outcome) ==
    /\ resp' = [op |-> "isRegistered", status |-> outcome,
                data |-> useRegistrationStatus(userEvents, userId, eventId, outcome)]
    /\ UNCHANGED <<eventVars, otherThanEvent, clientVars>>

\* ------------------------------------------------------------- event card

\* useQuery before its first result: isLoading, no data.
Loading == [isLoading |-> TRUE]

\* useQuery after a result: refetches keep isLoading false.
Loaded(data) == [isLoading |-> FALSE, data |-> data]

Button(label, disabled, onClick) ==
    [label |-> label, disabled |-> disabled, onClick |-> onClick]

\* A card whose buttons a pending request does not disable.
renderButtonNeverDisabled(isAuthenticated, isChecking, registered, isRegistering) ==
    IF ~isAuthenticated
    THEN Button("Login to Register", FALSE, "handleLoginRedirect")
    ELSE IF isChecking
    THEN Button("Checking status...", TRUE, "none")
    ELSE IF registered
    THEN Button("Unregister", FALSE, "onUnregister")
    ELSE Button("Register Now", FALSE, "onRegister")

\* renderButton of EventCard, as a function of the props and the query.
renderButton(isAuthenticated, isChecking, registered, isRegistering) ==
    IF ~isAuthenticated
    THEN Button("Login to Register", FALSE, "handleLoginRedirect")
    ELSE IF isChecking
    THEN Button("Checking status...", TRUE, "none")
    ELSE IF registered
    THEN Button(IF isRegistering THEN "Unregistering..." ELSE "Unregister",
                isRegistering, "onUnregister")
    ELSE Button(IF isRegistering THEN "Registering..." ELSE "Register Now",
                isRegistering, "onRegister")

\* The browser whose events page is followed.
ThePage == 1

\* <EventCard event isRegistering={registerForEvent.isPending}
\*            isAuthenticated={!!session} />, with
\* const { data: isRegistered = false, isLoading: isCheckingRegistration }
EventCard(eventId) ==
    renderButton(currentSession # NoSession, statusQueries[eventId].isLoading,
                 IF statusQueries[eventId].isLoading THEN FALSE
                 ELSE statusQueries[eventId].data,
                 registering[ThePage] # Idle)

\* useSession() delivers another session.
SetSession(s) ==
    /\ currentSession # s
    /\ currentSession' = s
    /\ UNCHANGED <<statusQueries, unregistering, buttonVars, eventVars,
                   courseVars, planVars, subVars, careerVars, store,
                   clientVars, resp>>

\* The query of a card settles (the first fetch or a refetch): the server
\* answers for the signed-in user, or the request fails.
StatusQuerySettles(eventId, outcome) ==
    /\ statusQueries' =
          [statusQueries EXCEPT ![eventId] =
              Loaded(IF currentSession = NoSession THEN FALSE
                     ELSE useRegistrationStatus(userEvents,
                                                currentSession.user.id,
                                                eventId, outcome))]
    /\ UNCHANGED <<currentSession, unregistering, buttonVars, eventVars,
                   courseVars, planVars, subVars, careerVars, store,
                   clientVars, resp>>

\* handleUnregister up to the request: unregisterForEvent.mutateAsync(eventId)
handleUnregisterBegin(eventId) ==
    /\ currentSession # NoSession
    /\ ~ \E u \in unregistering : u.eventId = eventId
    /\ unregistering' =
          unregistering \cup
             {[userId |-> currentSession.user.id, eventId |-> eventId]}
    /\ UNCHANGED <<currentSession, statusQueries, buttonVars, eventVars,
                   courseVars, planVars, subVars, careerVars, store,
                   clientVars, resp>>

\* The button of a card is clicked: nothing if it is disabled, else its
\* onClick.
ClickCard(eventId) ==
    \E b \in {EventCard(eventId)} :
       /\ ~b.disabled
       /\ CASE b.onClick = "handleLoginRedirect" ->
                 /\ route' = "/login?callbackUrl=/events"
                 /\ UNCHANGED <<userEvents, registering, cardVars, buttonVars,
                                courseVars, planVars, subVars, careerVars,
                                store, clientVars, resp>>
            [] b.onClick = "onRegister" ->
                 handleRegisterBegin(ThePage, currentSession, eventId)
            [] b.onClick = "onUnregister" -> handleUnregisterBegin(eventId)

\* An unregister request settles, and the rest of handleUnregister.
UnregisterSettles(u) ==
    /\ u \in unregistering
    /\ unregistering' = unregistering \ {u}
    /\ \E r \in {unregisterForEvent(userEvents, u.userId, u.eventId)} :
          /\ userEvents' = r.userEvents
          /\ resp' = Response("unregisterForEvent", r.status)
          /\ IF r.status = "OK"
             THEN toast' = UnregisteredToast /\ route' = "/events"
             ELSE toast' = UnregistrationFailedToast(r.status) /\ UNCHANGED route
    /\ UNCHANGED <<currentSession, statusQueries, registering, buttonVars,
                   courseVars, planVars, subVars, careerVars, store,
                   selectedPlan, paymentProof, console>>

\* ------------------------------------------------------- career assessment

\* CREATE TYPE "AssessmentStatus"
AssessmentStatus == {"IN_PROGRESS", "COMPLETED", "ABANDONED"}

\* A TEXT column that holds no value.
NullText == "null"

CareerUsers == {"g1"}

\* Suggested career paths, confidence scores (percent) and generated codes.
CareerPaths == {"engineer", "designer"}

Scores == {60, 90}

ShareCodes == {"k1", "k2", "k3"}

RECURSIVE GCD(_, _)
GCD(a, b) == IF b = 0 THEN a ELSE GCD(b, a % b)

\* A DOUBLE PRECISION value held as an exact fraction in lowest terms.
Frac(num, den) == [num |-> num \div GCD(num, den), den |-> den \div GCD(num, den)]

\* The row an INSERT into "career_assessments" adds: status IN_PROGRESS,
\* isShared false, the nullable columns null.
NewAssessment(id, careerUserId) ==
    [id |-> id, careerUserId |-> careerUserId, status |-> "IN_PROGRESS",
     completedAt |-> NULL, suggestedCareer |-> NullText,
     confidenceScore |-> NULL, isShared |-> FALSE, shareCode |-> NullText]

\* startAssessment(careerUser, inputs)
startAssessment(careerUserId) ==
    /\ Cardinality(assessments) < MaxAssessments
    /\ assessments' = assessments \cup
          {NewAssessment(Cardinality(assessments) + 1, careerUserId)}
    /\ resp' = Response("startAssessment", "Created")
    /\ UNCHANGED <<analytics, completing, feedbacks, otherThanCareer>>

\* The "career_analytics" row of a path; the column defaults when there is none.
AnalyticsRow(A, careerPath) ==
    IF \E r \in A : r.careerPath = careerPath
    THEN CHOOSE r \in A : r.careerPath = careerPath
    ELSE [careerPath |-> careerPath, totalSuggestions |-> 0,
          averageConfidence |-> Frac(0, 1)]

\* One more suggestion on a row: the count incremented and the running
\* average recomputed, (average * n + score) / (n + 1).
recordSuggestion(row, score) ==
    [row EXCEPT
       !.totalSuggestions = row.totalSuggestions + 1,
       !.averageConfidence =
          Frac(row.averageConfidence.num * row.totalSuggestions
                  + score * row.averageConfidence.den,
               row.averageConfidence.den * (row.totalSuggestions + 1))]

\* An aggregate update that writes back from the row the handler read (seen).
updateAnalyticsFromRead(A, seen, careerPath, score) ==
    {r \in A : r.careerPath # careerPath} \cup {recordSuggestion(seen, score)}

\* The aggregate update as one atomic read-modify-write of the row of the path
\* (careerPath is unique: career_analytics_careerPath_key).
updateAnalytics(A, seen, careerPath, score) ==
    {r \in A : r.careerPath # careerPath}
    \cup {recordSuggestion(AnalyticsRow(A, careerPath), score)}

\* The store's clock for completions: one tick per completed assessment.
CompletionTime(A) == Cardinality({a \in A : a.status = "COMPLETED"}) + 1

\* A completion that does not test the status.
completeAnyStatus(A, id, careerPath, score) ==
    IF ~ \E a \in A : a.id = id
    THEN [assessments |-> A, status |-> "NotFoundError"]
    ELSE LET a == CHOOSE x \in A : x.id = id
         IN [assessments |->
                (A \ {a}) \cup {[a EXCEPT !.status = "COMPLETED",
                                          !.completedAt = CompletionTime(A),
                                          !.suggestedCareer = careerPath,
                                          !.confidenceScore = score]},
             status |-> "OK"]

\* The first statement of completeAssessment: the conditional update
\* IN_PROGRESS -> COMPLETED that sets completedAt, the suggestion and its
\* confidence.
complete(A, id, careerPath, score) ==
    IF ~ \E a \in A : a.id = id
    THEN [assessments |-> A, status |-> "NotFoundError"]
    ELSE LET a == CHOOSE x \in A : x.id = id
         IN IF a.status # "IN_PROGRESS"
            THEN [assessments |-> A, status |-> "ConflictError"]
            ELSE [assessments |->
                     (A \ {a}) \cup {[a EXCEPT !.status = "COMPLETED",
                                               !.completedAt = CompletionTime(A),
                                               !.suggestedCareer = careerPath,
                                               !.confidenceScore = score]},
                  status |-> "OK"]

\* completeAssessment(assessment, suggestion, confidenceScore, matchingFactors),
\* up to the aggregate update, which is left pending.
completeAssessmentBegin(p, id, careerPath, score) ==
    /\ completing[p] = Idle
    /\ \E r \in {complete(assessments, id, careerPath, score)} :
          /\ assessments' = r.assessments
          /\ IF r.status = "OK"
             THEN /\ completing' = [completing EXCEPT ![p] =
                        [pc |-> "aggregate", careerPath |-> careerPath,
                         score |-> score,
                         seen |-> AnalyticsRow(analytics, careerPath)]]
                  /\ UNCHANGED resp
             ELSE /\ resp' = Response("completeAssessment", r.status)
                  /\ UNCHANGED completing
    /\ UNCHANGED <<analytics, feedbacks, otherThanCareer>>

\* The aggregate update of a completion.
completeAssessmentAggregate(p) ==
    /\ completing[p] # Idle
    /\ analytics' = updateAnalytics(analytics, completing[p].seen,
                                    completing[p].careerPath, completing[p].score)
    /\ completing' = [completing EXCEPT ![p] = Idle]
    /\ resp' = Response("completeAssessment", "OK")
    /\ UNCHANGED <<assessments, feedbacks, otherThanCareer>>

\* A "career_assessments" table without the unique index on shareCode.
career_assessments_no_shareCode_key(rows, id, shareCode) == TRUE

\* CREATE UNIQUE INDEX "career_assessments_shareCode_key": may the row id take
\* this shareCode?  (Null share codes never collide.)
career_assessments_shareCode_key(rows, id, shareCode) ==
    ~ \E r \in rows : r.id # id /\ r.shareCode = shareCode

\* shareAssessment(assessment) with the code it generated, on the table A: the
\* table and the result.
shareAssessment(A, id, shareCode) ==
    IF ~ \E a \in A : a.id = id
    THEN [assessments |-> A, status |-> "NotFoundError"]
    ELSE IF ~career_assessments_shareCode_key(A, id, shareCode)
    THEN [assessments |-> A, status |-> "ConflictError"]
    ELSE LET a == CHOOSE x \in A : x.id = id
         IN [assessments |->
                (A \ {a}) \cup {[a EXCEPT !.shareCode = shareCode,
                                          !.isShared = TRUE]},
             status |-> "OK"]

ShareAssessment(id, shareCode) ==
    \E r \in {shareAssessment(assessments, id, shareCode)} :
       /\ assessments' = r.assessments
       /\ resp' = [op |-> "shareAssessment", status |-> r.status,
                   id |-> id, shareCode |-> shareCode]
       /\ UNCHANGED <<analytics, completing, feedbacks, otherThanCareer>>

\* --------------------------------------------------------------- feedback

\* "rating" INTEGER, "isRelevant" and "wouldRecommend" BOOLEAN as submitted.
Ratings == {1, 5}

\* A "user_feedback" table without the unique index on assessmentId.
user_feedback_no_assessmentId_key(F, assessmentId) == TRUE

\* CREATE UNIQUE INDEX "user_feedback_assessmentId_key": may a row for this
\* assessment be inserted?
user_feedback_assessmentId_key(F, assessmentId) ==
    ~ \E f \in F : f.assessmentId = assessmentId

\* submitFeedback(assessment, rating, isRelevant, wouldRecommend, comments) on
\* the tables A ("career_assessments") and F ("user_feedback"): the feedback
\* table and the result.
submitFeedback(A, F, assessmentId, rating, isRelevant, wouldRecommend) ==
    IF ~ \E a \in A : a.id = assessmentId
    THEN [feedbacks |-> F, status |-> "NotFoundError"]
    ELSE IF ~user_feedback_assessmentId_key(F, assessmentId)
    THEN [feedbacks |-> F, status |-> "ConflictError"]
    ELSE [feedbacks |->
             F \cup {[id |-> Cardinality(F) + 1, assessmentId |-> assessmentId,
                      rating |-> rating, isRelevant |-> isRelevant,
                      wouldRecommend |-> wouldRecommend]},
          status |-> "Created"]

SubmitFeedback(assessmentId, rating, isRelevant, wouldRecommend) ==
    \E r \in {submitFeedback(assessments, feedbacks, assessmentId, rating,
                             isRelevant, wouldRecommend)} :
       /\ feedbacks' = r.feedbacks
       /\ resp' = Response("submitFeedback", r.status)
       /\ UNCHANGED <<assessments, analytics, completing, otherThanCareer>>

\* ------------------------------------------------------------ foreign keys

FK(child, column, parent, onDelete) ==
    [child |-> child, column |-> column, parent |-> parent, onDelete |-> onDelete]

\* ALTER TABLE ... ADD CONSTRAINT ... FOREIGN KEY ... ON DELETE ...
ForeignKeys ==
    {FK("PersonalDiscovery", "userId", "User", "RESTRICT"),
     FK("ScholarshipAssessment", "userId", "User", "RESTRICT"),
     FK("UserProfile", "userId", "User", "RESTRICT"),
     FK("Subscription", "userId", "User", "RESTRICT"),
     FK("Subscription", "planId", "Plan", "RESTRICT"),
     FK("PaymentProof", "userId", "User", "RESTRICT"),
     FK("PaymentProof", "subscriptionId", "Subscription", "RESTRICT"),
     FK("Feedback", "userId", "User", "RESTRICT"),
     FK("Notification", "userId", "User", "RESTRICT"),
     FK("TrackProgress", "userId", "User", "RESTRICT"),
     FK("UserEvent", "userId", "User", "CASCADE"),
     FK("UserEvent", "eventId", "Event", "CASCADE"),
     FK("Course", "categoryId", "Category", "RESTRICT"),
     FK("Lesson", "courseId", "Course", "CASCADE"),
     FK("Enrollment", "userId", "User", "RESTRICT"),
     FK("Enrollment", "courseId", "Course", "RESTRICT"),
     FK("LessonCompletion", "enrollmentId", "Enrollment", "RESTRICT"),
     FK("LessonCompletion", "lessonId", "Lesson", "RESTRICT"),
     FK("LearningObjective", "courseId", "Course", "CASCADE"),
     FK("CV", "userId", "User", "RESTRICT"),
     FK("career_assessments", "careerUserId", "career_users", "RESTRICT"),
     FK("user_feedback", "assessmentId", "career_assessments", "RESTRICT")}

\* The tables that a foreign key starts from or points to.
Tables == {fk.child : fk \in ForeignKeys} \cup {fk.parent : fk \in ForeignKeys}

\* The rows that may be stored: one per table, each foreign-key column of a
\* row holding the id of the one row of the parent table.
RowIds == {"r1"}

Row(table, id) == [table |-> table, id |-> id]

AllRows == {Row(t, id) : t \in Tables, id \in RowIds}

\* Does the child row reference the parent row through this foreign key?
References(fk, child, parent) ==
    fk.child = child.table /\ fk.parent = parent.table /\ child.id = parent.id

\* INSERT of a row: refused when the row exists (primary key) or a parent is
\* missing (foreign key).
insertRow(S, row) ==
    IF row \in S THEN [rows |-> S, status |-> "ConflictError"]
    ELSE IF \E fk \in ForeignKeys :
               fk.child = row.table /\ Row(fk.parent, row.id) \notin S
    THEN [rows |-> S, status |-> "ForeignKeyError"]
    ELSE [rows |-> S \cup {row}, status |-> "Created"]

\* A DELETE that removes the row alone.
CascadeNone(FKs, S, D) == D

\* The rows a DELETE removes: the row and, through ON DELETE CASCADE, the
\* rows that reference a removed row.
RECURSIVE Cascade(_, _, _)
Cascade(FKs, S, D) ==
    LET next == D \cup {c \in S : \E d \in D, fk \in FKs :
                          fk.onDelete = "CASCADE" /\ References(fk, c, d)}
    IN IF next = D THEN D ELSE Cascade(FKs, S, next)

\* DELETE of a row: refused when a row that stays references, through ON
\* DELETE RESTRICT, a row that would go.
deleteRow(S, row) ==
    IF row \notin S THEN [rows |-> S, status |-> "NotFoundError"]
    ELSE LET D == Cascade(ForeignKeys, S, {row})
         IN IF \E c \in S \ D, d \in D, fk \in ForeignKeys :
                  fk.onDelete = "RESTRICT" /\ References(fk, c, d)
            THEN [rows |-> S, status |-> "ForeignKeyError"]
            ELSE [rows |-> S \ D, status |-> "Deleted"]

InsertRow(row) ==
    \E r \in {insertRow(store, row)} :
       /\ r.rows = store \/ Cardinality(store) < MaxRows
       /\ store' = r.rows
       /\ resp' = Response("INSERT", r.status)
       /\ UNCHANGED otherThanStore

DeleteRow(row) ==
    \E r \in {deleteRow(store, row)} :
       /\ store' = r.rows
       /\ resp' = Response("DELETE", r.status)
       /\ UNCHANGED otherThanStore

\* ------------------------------------------------------------ specifications

Init ==
    /\ enrollments = {}
    /\ completions = {}
    /\ callers = [p \in Callers |-> Idle]
    /\ plans = {}
    /\ subscriptions = {}
    /\ paymentProofs = {}
    /\ selectedPlan = JsNull
    /\ paymentProof = JsNull
    /\ toast = NoToast
    /\ console = <<>>
    /\ resp = Response("none", "none")
    /\ userEvents = {}
    /\ registering = [p \in Callers |-> Idle]
    /\ route = "/events"
    /\ assessments = {}
    /\ analytics = {}
    /\ completing = [p \in Callers |-> Idle]
    /\ feedbacks = {}
    /\ currentSession = NoSession
    /\ statusQueries = [e \in Events |-> Loading]
    /\ unregistering = {}
    /\ isEnrolling = FALSE
    /\ runs = {}
    /\ refreshed = FALSE
    /\ store = {}

\* Concurrent enrollment: any number of callers, any interleaving.
NextEnroll ==
    \E p \in Callers :
        \/ \E u \in Users, c \in Courses : EnrollBegin(p, u, c)
        \/ EnrollCommit(p)

SpecEnroll == Init /\ [][NextEnroll]_vars

\* Course progress: enrollments, then lesson completions.
NextLesson ==
    \/ \E u \in Users, c \in Courses : EnrollBegin(1, u, c)
    \/ EnrollCommit(1)
    \/ \E u \in Users, c \in Courses, l \in Lesson, t \in Times :
           CompleteLesson(u, c, l.id, t)

SpecLesson == Init /\ [][NextLesson]_vars

\* Plan management: an admin posting any body, any caller posting the sample
\* bodies, the store up or down.
NextPlan ==
    \/ \E json \in Bodies : PostPlan(Admin, json, "none")
    \/ \E session \in Sessions, json \in SampleBodies, fault \in Faults :
          PostPlan(session, json, fault)

SpecPlan == Init /\ [][NextPlan]_vars

\* Plan listing: plans are created from a few bodies and pages of them read.
ListBodies == SampleBodies \cup {[BasicPlan EXCEPT !.price = Num(0)]}

NextList ==
    \/ \E session \in Actors, json \in ListBodies : PostPlan(session, json, "none")
    \/ \E session \in Actors, page \in Params, pageSize \in Params :
          GetPlans(session, page, pageSize)

SpecList == Init /\ [][NextList]_vars

\* Subscriptions: plans are created, subscriptions requested and payment
\* proofs reviewed, by admins and by others.

NextSub ==
    \/ \E session \in Actors, json \in {BasicPlan, JsNull} :
          PostPlan(session, json, "none")
    \/ \E planId \in 1..(MaxPlans + 1), proofUrl \in ProofUrls \cup {NoFile} :
          RequestSubscription(planId, proofUrl)
    \/ \E session \in Actors, proofId \in 1..(MaxSubs + 1),
          decision \in PaymentStatus :
          ReviewPayment(session, proofId, decision)

SpecSub == Init /\ [][NextSub]_vars

\* The SubscribePlan component in a browser.
NextSubscribe ==
    \/ \E plan \in ClientPlans : SelectPlan(plan)
    \/ \E files \in FileLists : handleFileChange(files)
    \/ handleSubscribe

SpecSubscribe == Init /\ [][NextSubscribe]_vars

\* The events page: users register, unregister and look up their status, from
\* any number of browsers.
NextEvent ==
    \/ \E p \in Callers, session \in UserSessions, eventId \in Events :
          handleRegisterBegin(p, session, eventId)
    \/ \E p \in Callers : handleRegisterCommit(p)
    \/ \E userId \in Users, eventId \in Events : handleUnregister(userId, eventId)
    \/ \E userId \in Users, eventId \in Events, outcome \in RequestOutcomes :
          QueryRegistrationStatus(userId, eventId, outcome)

SpecEvent == Init /\ [][NextEvent]_vars

\* Career assessments are started and completed, the completions concurrent.
NextCareer ==
    \/ \E careerUserId \in CareerUsers : startAssessment(careerUserId)
    \/ \E p \in Callers, id \in 1..(MaxAssessments + 1),
          careerPath \in CareerPaths, score \in Scores :
          completeAssessmentBegin(p, id, careerPath, score)
    \/ \E p \in Callers : completeAssessmentAggregate(p)

SpecCareer == Init /\ [][NextCareer]_vars

\* Career assessments are started and shared.
NextShare ==
    \/ \E careerUserId \in CareerUsers : startAssessment(careerUserId)
    \/ \E id \in 1..(MaxAssessments + 1), shareCode \in ShareCodes :
          ShareAssessment(id, shareCode)

SpecShare == Init /\ [][NextShare]_vars

\* Persistence: rows of any table are created and deleted.
NextStore ==
    \/ \E row \in AllRows : InsertRow(row)
    \/ \E row \in AllRows : DeleteRow(row)

SpecStore == Init /\ [][NextStore]_vars

\* Career assessments are started and feedback on them is submitted.
NextFeedback ==
    \/ \E careerUserId \in CareerUsers : startAssessment(careerUserId)
    \/ \E assessmentId \in 1..(MaxAssessments + 1), rating \in Ratings,
          isRelevant \in BOOLEAN, wouldRecommend \in BOOLEAN :
          SubmitFeedback(assessmentId, rating, isRelevant, wouldRecommend)

SpecFeedback == Init /\ [][NextFeedback]_vars

\* One events page: the session changes, the status queries settle, the
\* buttons of the cards are clicked and the requests they start settle.
NextCard ==
    \/ \E s \in UserSessions : SetSession(s)
    \/ \E eventId \in Events, outcome \in RequestOutcomes :
          StatusQuerySettles(eventId, outcome)
    \/ \E eventId \in Events : ClickCard(eventId)
    \/ handleRegisterCommit(ThePage)
    \/ \E u \in unregistering : UnregisterSettles(u)

SpecCard == Init /\ [][NextCard]_vars

\* One enroll button: it is clicked, the request is served or lost, and the
\* run ends.
NextButton ==
    \/ \E userId \in Users, courseId \in Courses :
          handleEnrollBegin(userId, courseId)
    \/ \E run \in runs, ok \in BOOLEAN : ServeEnroll(run, ok)
    \/ \E run \in runs : FetchThrows(run)
    \/ \E run \in runs : handleEnrollEnd(run)

SpecButton == Init /\ [][NextButton]_vars

\* Every request is answered, unless the fetch rejects first, and a settled
\* promise resumes the handler.
SpecButtonLive ==
    /\ SpecButton
    /\ WF_vars(\E run \in runs : \E ok \in BOOLEAN : ServeEnroll(run, ok))
    /\ WF_vars(\E run \in runs : handleEnrollEnd(run))

\* ------------------------------------------------------------------ claims

EnrollmentsOf(userId, courseId) ==
    {r \in enrollments : r.userId = userId /\ r.courseId = courseId}

\* The step in which caller p's INSERT is decided.
Committed(p) == callers[p].pc = "insert" /\ callers'[p] = Idle

\* C1: at most one Enrollment row per (user, course) in every reachable state,
\* whatever the interleaving of the callers; the INSERT of a pair that has no
\* row creates it with progress 0 and answers Created, the INSERT of a pair
\* that has a row answers ConflictError and stores nothing, and the table
\* changes in no other way.
C1_AtMostOne ==
    \A u \in Users, c \in Courses : Cardinality(EnrollmentsOf(u, c)) <= 1

C1_CommitStep ==
    /\ \A p \in Callers :
          Committed(p) =>
             LET u == callers[p].userId
                 c == callers[p].courseId
             IN IF EnrollmentsOf(u, c) = {}
                THEN /\ resp' = Response("enroll", "Created")
                     /\ \E r \in enrollments' :
                           /\ r.userId = u /\ r.courseId = c /\ r.progress = 0
                           /\ enrollments' = enrollments \cup {r}
                ELSE /\ resp' = Response("enroll", "ConflictError")
                     /\ enrollments' = enrollments
    /\ enrollments' # enrollments => \E p \in Callers : Committed(p)
    /\ (callers' = callers /\ resp' # resp) =>
          /\ resp' = Response("enroll", "ConflictError")
          /\ enrollments' = enrollments

C1_EnrollExactlyOnce == [](C1_AtMostOne) /\ [][C1_CommitStep]_vars

\* A caller lost the race: its INSERT is pending for a pair that another
\* caller has enrolled meanwhile, and an enroll was answered ConflictError.
C1_Witness ==
    /\ resp = Response("enroll", "ConflictError")
    /\ \E p \in Callers :
          /\ callers[p].pc = "insert"
          /\ EnrollmentsOf(callers[p].userId, callers[p].courseId) # {}

CompletionsOf(enrollmentId, lessonId) ==
    {r \in completions : r.enrollmentId = enrollmentId /\ r.lessonId = lessonId}

\* What a completeLesson call leaves when it is made in the tables E, C.
After(E, C, e, l, t) == completeLesson(E, C, e.userId, e.courseId, l.id, t)

\* C2: completeLesson is idempotent per (enrollment, lesson).  In every
\* reachable state, a call for a pair that is already recorded is refused and
\* leaves both tables as they are (progress, completedAt and the single
\* LessonCompletion row of the pair), a completed course included; and a call
\* repeated right after any call changes nothing more.
C2_CompleteLessonIdempotent ==
    \A e \in enrollments : \A l \in LessonsOf(e.courseId), t \in Times :
       LET once  == After(enrollments, completions, e, l, t)
           twice == After(once.enrollments, once.completions, e, l, t)
       IN /\ CompletionsOf(e.id, l.id) # {} =>
                /\ once.status = "ConflictError"
                /\ once.enrollments = enrollments
                /\ once.completions = completions
                /\ Cardinality(CompletionsOf(e.id, l.id)) = 1
          /\ twice.enrollments = once.enrollments
          /\ twice.completions = once.completions

\* A completed course in which a lesson was just completed a second time.
C2_Witness ==
    /\ resp = Response("completeLesson", "ConflictError")
    /\ \E e \in enrollments :
          /\ e.completedAt # NULL
          /\ \A l \in LessonsOf(e.courseId) : CompletionsOf(e.id, l.id) # {}

\* C3: the stored progress of every enrollment is the floor of
\* 100 * completedCount / totalLessons and lies in 0..100, and no step lowers
\* the progress of an enrollment.
C3_ProgressIsFloor ==
    \A e \in enrollments :
       LET n == CompletedCount(completions, e.id)
           total == Cardinality(LessonsOf(e.courseId))
       IN /\ e.progress \in 0..100
          /\ e.progress * total <= 100 * n
          /\ 100 * n < (e.progress + 1) * total

C3_ProgressStep ==
    \A e \in enrollments : \A f \in enrollments' :
       f.id = e.id => f.progress >= e.progress

C3_ProgressMonotone == [](C3_ProgressIsFloor) /\ [][C3_ProgressStep]_vars

\* An enrollment part of the way through a course whose lesson count does not
\* divide 100 evenly (the floor rounds), next to a finished one.
C3_Witness ==
    /\ \E e \in enrollments :
          /\ e.progress > 0
          /\ e.progress * Cardinality(LessonsOf(e.courseId))
                 # 100 * CompletedCount(completions, e.id)
    /\ \E e \in enrollments : e.progress = 100

\* C4: completedAt is set exactly when progress is 100 (the state the course
\* card shows as "Review Course"), and a completed enrollment is never
\* changed again: neither its completedAt nor its progress.
C4_CompletedIffFull ==
    \A e \in enrollments :
       /\ (e.completedAt # NULL) <=> (e.progress = 100)
       /\ (e.completedAt # NULL) <=> (CourseLinkLabel(e.progress) = "Review Course")

C4_CompletedStep ==
    \A e \in enrollments : e.completedAt # NULL => e \in enrollments'

C4_CompletedForGood == [](C4_CompletedIffFull) /\ [][C4_CompletedStep]_vars

\* Two completed enrollments with different completion times, and one still
\* in progress after a lesson.
C4_Witness ==
    /\ \E e, f \in enrollments :
          /\ e.completedAt # NULL /\ f.completedAt # NULL
          /\ e.completedAt # f.completedAt
    /\ \E e \in enrollments : e.progress \in 1..99 /\ e.completedAt = NULL

\* The payment proofs of a subscription.
ProofsOf(PP, su) == {pr \in PP : pr.subscriptionId = su.id}

C5_ReviewDecides ==
    \A pr \in paymentProofs, d \in {"APPROVED", "REJECTED"} :
       \A su \in subscriptions :
          su.id = pr.subscriptionId /\ su.status = "PENDING" =>
             \E r \in {reviewPayment(subscriptions, paymentProofs, Admin, pr.id, d)} :
                /\ r.status = "OK"
                /\ r.paymentProofs =
                      (paymentProofs \ {pr}) \cup {[pr EXCEPT !.status = d]}
                /\ r.subscriptions =
                      (subscriptions \ {su})
                      \cup {[su EXCEPT !.status = IF d = "APPROVED" THEN "ACTIVE"
                                                  ELSE "CANCELLED"]}

C5_PendingUndecided ==
    \A su \in subscriptions :
       su.status = "PENDING" =>
          /\ ProofsOf(paymentProofs, su) # {}
          /\ \A pr \in ProofsOf(paymentProofs, su) : pr.status = "PENDING"

C5_LeavesPending ==
    \A su \in subscriptions :
       su.status = "PENDING" =>
          \/ su \in subscriptions'
          \/ /\ resp' = Response("reviewPayment", "OK")
             /\ \/ /\ [su EXCEPT !.status = "ACTIVE"] \in subscriptions'
                   /\ \A pr \in ProofsOf(paymentProofs', su) : pr.status = "APPROVED"
                \/ /\ [su EXCEPT !.status = "CANCELLED"] \in subscriptions'
                   /\ \A pr \in ProofsOf(paymentProofs', su) : pr.status = "REJECTED"

\* C5: reviewPayment by an ADMIN on a PaymentProof whose Subscription is
\* PENDING sets the proof's status to the decision and moves the Subscription
\* to ACTIVE on APPROVED and to CANCELLED on REJECTED; in every reachable state
\* a PENDING Subscription has no APPROVED or REJECTED proof, and PENDING is
\* left only by these two transitions.
C5_ReviewLeavesPending ==
    [](C5_ReviewDecides /\ C5_PendingUndecided) /\ [][C5_LeavesPending]_vars

\* A review has just succeeded; one subscription was approved into ACTIVE and
\* another rejected into CANCELLED.
C5_Witness ==
    /\ resp = Response("reviewPayment", "OK")
    /\ \E su \in subscriptions :
          /\ su.status = "ACTIVE"
          /\ \A pr \in ProofsOf(paymentProofs, su) : pr.status = "APPROVED"
    /\ \E su \in subscriptions :
          /\ su.status = "CANCELLED"
          /\ \A pr \in ProofsOf(paymentProofs, su) : pr.status = "REJECTED"

C6_ReviewOfDecided ==
    \A pr \in paymentProofs, session \in Sessions, d \in PaymentStatus :
       \A su \in subscriptions :
          su.id = pr.subscriptionId /\ su.status \in {"ACTIVE", "CANCELLED"} =>
             reviewPayment(subscriptions, paymentProofs, session, pr.id, d)
                .subscriptions = subscriptions

C6_DecidedStays ==
    \A su \in subscriptions :
       su.status \in {"ACTIVE", "CANCELLED"} => su \in subscriptions'

\* C6: reviewPayment on a PaymentProof whose Subscription is already ACTIVE or
\* CANCELLED leaves the Subscription status unchanged, so no Subscription goes
\* from ACTIVE to CANCELLED or from CANCELLED to ACTIVE.
C6_OnlyOutOfPending == [](C6_ReviewOfDecided) /\ [][C6_DecidedStays]_vars

\* A review of a proof whose subscription had been decided was just refused,
\* with one subscription ACTIVE and one CANCELLED in the store.
C6_Witness ==
    /\ resp = Response("reviewPayment", "ConflictError")
    /\ \E su, sv \in subscriptions :
          su.status = "ACTIVE" /\ sv.status = "CANCELLED"

\* C7: createPlan and reviewPayment called without a session or with a role
\* other than ADMIN fail with an authorization error (401) and leave the store
\* unchanged, whatever the payload or the decision.
C7_AdminOnly ==
    \A session \in Sessions \ {Session("ADMIN")} :
       /\ \A json \in SampleBodies, fault \in Faults :
             \E r \in {POST(plans, session, json, fault)} :
                /\ r.res.status = 401
                /\ r.plans = plans
       /\ \A proofId \in 1..(MaxSubs + 1), d \in PaymentStatus :
             \E r \in {reviewPayment(subscriptions, paymentProofs,
                                     session, proofId, d)} :
                /\ r.status = "AuthorizationError"
                /\ r.subscriptions = subscriptions
                /\ r.paymentProofs = paymentProofs

\* A review by an actor who is no admin was just refused while a PENDING
\* subscription and a plan are in the store.
C7_Witness ==
    /\ resp = Response("reviewPayment", "AuthorizationError")
    /\ plans # {}
    /\ \E su \in subscriptions : su.status = "PENDING"

\* C8: a subscription request with a plan and a proof file present creates
\* exactly one PENDING Subscription with endDate > startDate and exactly one
\* PENDING PaymentProof that references it.
C8_SubscribeCreates ==
    [][handleSubscribe /\ ~Falsy(selectedPlan) /\ ~Falsy(paymentProof) =>
          /\ Cardinality(subscriptions' \ subscriptions) = 1
          /\ Cardinality(paymentProofs' \ paymentProofs) = 1
          /\ \A su \in subscriptions' \ subscriptions :
                /\ su.status = "PENDING"
                /\ su.endDate > su.startDate
                /\ \A pr \in paymentProofs' \ paymentProofs :
                      pr.status = "PENDING" /\ pr.subscriptionId = su.id]_vars

\* What the plan schema asks of one value, in the words of the design.
IsText(x) == x.t = "string" /\ x.v # ""

IsTextList(x) == x.t = "array" /\ \A i \in 1..Len(x.v) : x.v[i].t = "string"

\* The number a client sent: a JSON number, or a string that is a decimal
\* literal from its first character to its last; NaN otherwise.
NumberSent(x) ==
    IF x.t = "number" THEN x
    ELSE IF x.t = "string" /\ parseFloat(x) # NaN
            /\ NumberToString(parseFloat(x).v) = x.v
    THEN parseFloat(x)
    ELSE NaN

C9_Acceptable(json) ==
    /\ IsText(json.name)
    /\ IsText(json.description)
    /\ NumberSent(json.price) # NaN /\ NumberSent(json.price).v >= 0
    /\ NumberSent(json.duration) # NaN
    /\ NumberSent(json.duration).v % Scale = 0
    /\ NumberSent(json.duration).v >= Scale
    /\ IsTextList(json.services) /\ Len(json.services.v) >= 1
    /\ IsTextList(json.features)

\* C9: createPlan by an ADMIN accepts a payload exactly when name and
\* description are non-empty, price >= 0, duration is an integer >= 1,
\* services is a non-empty list and features is a list; a payload that is
\* not accepted is answered 400 and persists nothing.
C9_AcceptsExactlyValid ==
    \A json \in Payloads :
       \E r \in {POST(plans, Admin, json, "none")} :
          IF C9_Acceptable(json)
          THEN r.res.status = 200 /\ r.plans = plans \cup {r.res.body}
          ELSE r.res.status = 400 /\ r.plans = plans

\* The fields of a coerced body that break the schema.
C10_Violated(body) ==
    {f \in {"name"} : ~IsText(body.name)}
    \cup {f \in {"description"} : ~IsText(body.description)}
    \cup {f \in {"price"} : ~(body.price.t = "number" /\ body.price.v >= 0)}
    \cup {f \in {"duration"} :
            ~(/\ body.duration.t = "number"
              /\ body.duration.v % Scale = 0
              /\ body.duration.v >= Scale)}
    \cup {f \in {"services"} :
            ~(IsTextList(body.services) /\ Len(body.services.v) >= 1)}
    \cup {f \in {"features"} : ~IsTextList(body.features)}

FieldsNamed(issues) == {issues[i].path[1] : i \in 1..Len(issues)}

NonPositive == {Str(<<"0">>), Str(<<"-", "1">>)}

\* C11: listPlans with page <= 0 or pageSize <= 0 fails with a validation
\* error (400) and returns no plans and no pagination object.
C11_NonPositiveIs400 ==
    \A page \in Params, pageSize \in Params :
       page \in NonPositive \/ pageSize \in NonPositive =>
          GET(plans, Admin, page, pageSize).status = 400

\* The decimal text of a number of one digit.
Digit(n) == Str(<<Digits[n + 1]>>)

\* How many stored plans were created after this one.
Newer(P, plan) == Cardinality({q \in P : q.createdAt > plan.createdAt})

\* The smallest number of pages of this size that hold total rows.
PagesFor(total, pageSize) ==
    CHOOSE n \in 0..total : n * pageSize >= total
                            /\ \A m \in 0..total : m * pageSize >= total => n <= m

C12_PageOfPlans ==
    \A page \in 1..3, pageSize \in 1..3 :
       \E r \in {GET(plans, Admin, Digit(page), Digit(pageSize))} :
          /\ r.status = 200
          /\ Len(r.body.plans) =
                IF Cardinality(plans) <= (page - 1) * pageSize THEN 0
                ELSE IF Cardinality(plans) >= page * pageSize THEN pageSize
                ELSE Cardinality(plans) - (page - 1) * pageSize
          /\ \A i \in 1..Len(r.body.plans) :
                \E plan \in plans :
                   /\ Newer(plans, plan) = (page - 1) * pageSize + i - 1
                   /\ r.body.plans[i].id = plan.id
                   /\ r.body.plans[i].name = plan.name
                   /\ r.body.plans[i].price = plan.price
                   /\ r.body.plans[i].duration = plan.duration
          /\ r.body.pagination.total = Cardinality(plans)
          /\ r.body.pagination.pageCount =
                Num(PagesFor(Cardinality(plans), pageSize))
          /\ r.body.pagination.currentPage = page
          /\ r.body.pagination.pageSize = pageSize

C12_ListChangesNothing == resp'.op = "GET /plans" => plans' = plans

\* C12: for page >= 1 and pageSize >= 1 listPlans returns the plans at
\* positions (page-1)*pageSize .. page*pageSize-1 of the stored plans by
\* creation time descending, with total, pageCount = ceil(total / pageSize),
\* currentPage and pageSize, and changes no stored plan.
C12_ListReturnsPage == [](C12_PageOfPlans) /\ [][C12_ListChangesNothing]_vars

\* A second page that is not empty was just returned, and it is the last one.
C12_Witness ==
    /\ resp.op = "GET /plans" /\ resp.status = 200
    /\ resp.currentPage = 2 /\ resp.returned = 1 /\ resp.pageSize = 1
    /\ Cardinality(plans) = 2

\* The scenario payload: name, description, price 49.99, duration 30 and one
\* service, with no features list.
C13_Scenario ==
    [name |-> Str("Basic"), description |-> Str("Essential mentorship services"),
     price |-> Num(4999), duration |-> Num(3000),
     services |-> Arr(<<Str("mentorship")>>), features |-> Undefined]

\* C13: createPlan by an ADMIN with such a payload, with or without a
\* features list, returns a Plan with a new id and the same field values, and
\* a following listPlans(1, 10) includes it with total >= 1.
C13_CreateThenList ==
    \A json \in {C13_Scenario, [C13_Scenario EXCEPT !.features = Arr(<<>>)]} :
       \E r \in {POST(plans, Admin, json, "none")} :
          /\ r.res.status = 200
          /\ \A p \in plans : p.id # r.res.body.id
          /\ r.res.body.name = json.name.v
          /\ r.res.body.description = json.description.v
          /\ r.res.body.price = json.price.v
          /\ r.res.body.duration * Scale = json.duration.v
          /\ r.res.body.services = json.services.v
          /\ \E l \in {GET(r.plans, Admin, Str(<<"1">>), Str(<<"1", "0">>))} :
                /\ l.status = 200
                /\ l.body.pagination.total >= 1
                /\ \E i \in 1..Len(l.body.plans) :
                      l.body.plans[i].id = r.res.body.id

\* The step in which caller p's register request is decided.
RegisterCommitted(p) == registering[p].pc = "insert" /\ registering'[p] = Idle

C14_AtMostOne ==
    \A u \in Users, e \in Events : Cardinality(UserEventsOf(userEvents, u, e)) <= 1

C14_RegisterStep ==
    /\ \A p \in Callers :
          RegisterCommitted(p) =>
             LET u == registering[p].userId
                 e == registering[p].eventId
             IN IF UserEventsOf(userEvents, u, e) = {}
                THEN /\ resp' = Response("registerForEvent", "Created")
                     /\ \E r \in userEvents' :
                           /\ r.userId = u /\ r.eventId = e
                           /\ userEvents' = userEvents \cup {r}
                ELSE /\ resp' = Response("registerForEvent", "ConflictError")
                     /\ userEvents' = userEvents
    /\ \A r \in userEvents' \ userEvents : \E p \in Callers : RegisterCommitted(p)
    /\ \A p \in Callers, session \in UserSessions \ {NoSession}, e \in Events :
          (handleRegisterBegin(p, session, e)
             /\ UserEventsOf(userEvents, session.user.id, e) # {}) =>
                /\ resp' = Response("registerForEvent", "ConflictError")
                /\ userEvents' = userEvents

\* C14: at most one UserEvent row per (user, event) in every reachable state,
\* whatever the interleaving of registerForEvent calls; of two concurrent
\* calls one inserts the row and the other gets ConflictError, and a call made
\* while the row exists gets ConflictError and leaves the row unchanged.
C14_RegisterExactlyOnce == [](C14_AtMostOne) /\ [][C14_RegisterStep]_vars

\* A caller lost the race: its insert is pending for a pair that another
\* caller has registered meanwhile, and a register was answered ConflictError.
C14_Witness ==
    /\ resp = Response("registerForEvent", "ConflictError")
    /\ \E p \in Callers :
          /\ registering[p].pc = "insert"
          /\ UserEventsOf(userEvents, registering[p].userId,
                          registering[p].eventId) # {}

C15_UnregisterDeletes ==
    \A u \in Users, e \in Events :
       \E r \in {unregisterForEvent(userEvents, u, e)} :
          IF UserEventsOf(userEvents, u, e) # {}
          THEN /\ r.status = "OK"
               /\ r.userEvents = userEvents \ UserEventsOf(userEvents, u, e)
               /\ ~isRegistered(r.userEvents, u, e)
               /\ unregisterForEvent(r.userEvents, u, e) =
                     [userEvents |-> r.userEvents, status |-> "NotFoundError"]
               /\ UserEvent_pkey(r.userEvents, u, e)
          ELSE r.status = "NotFoundError" /\ r.userEvents = userEvents

C15_RegisterAgain ==
    \A p \in Callers :
       (RegisterCommitted(p)
          /\ UserEventsOf(userEvents, registering[p].userId,
                          registering[p].eventId) = {}) =>
             /\ resp' = Response("registerForEvent", "Created")
             /\ UserEventsOf(userEvents', registering[p].userId,
                             registering[p].eventId) # {}

\* C15: unregisterForEvent deletes the UserEvent row of the pair when it
\* exists and fails with NotFoundError, changing nothing, when it does not;
\* after an unregister the pair is not registered, a second unregister fails
\* with NotFoundError and a later registerForEvent succeeds again.
C15_UnregisterThenRegister ==
    [](C15_UnregisterDeletes) /\ [][C15_RegisterAgain]_vars

\* A row was just deleted while the rows of another pair stay, and a register
\* request for the deleted pair is waiting to insert it again.
C15_Witness ==
    /\ resp = Response("unregisterForEvent", "OK")
    /\ toast = UnregisteredToast
    /\ userEvents # {}
    /\ \E p \in Callers :
          /\ registering[p].pc = "insert"
          /\ UserEventsOf(userEvents, registering[p].userId,
                          registering[p].eventId) = {}

C16_StatusOfStore ==
    \A u \in Users, e \in Events :
       /\ isRegistered(userEvents, u, e) = (UserEventsOf(userEvents, u, e) # {})
       /\ useRegistrationStatus(userEvents, u, e, "answered")
             = (UserEventsOf(userEvents, u, e) # {})
       /\ useRegistrationStatus(userEvents, u, e, "failed") = FALSE

C16_QueryChangesNothing ==
    (resp' # resp /\ resp'.op = "isRegistered") =>
       UNCHANGED <<userEvents, registering, enrollments, completions, plans,
                   subscriptions, paymentProofs>>

RECURSIVE SumOfScores(_)
SumOfScores(S) ==
    IF S = {} THEN 0
    ELSE LET a == CHOOSE x \in S : TRUE
         IN a.confidenceScore + SumOfScores(S \ {a})

\* The assessments completed with a suggested career, and the completions of
\* it whose aggregate update is still to come.
CompletedWith(careerPath) ==
    {a \in assessments : a.status = "COMPLETED" /\ a.suggestedCareer = careerPath}

Aggregating(careerPath) ==
    {p \in Callers : completing[p] # Idle /\ completing[p].careerPath = careerPath}

\* C17: under any interleaving of concurrent completeAssessment calls no
\* update of the career_analytics row is lost: the row counts every completion
\* whose update was made, and once all calls have finished totalSuggestions is
\* the number of assessments completed with the path and averageConfidence
\* the average of their confidence scores.
C17_NoLostUpdate ==
    \A careerPath \in CareerPaths :
       LET row == AnalyticsRow(analytics, careerPath)
           done == CompletedWith(careerPath)
       IN /\ row.totalSuggestions + Cardinality(Aggregating(careerPath))
                = Cardinality(done)
          /\ Aggregating(careerPath) = {} =>
                /\ row.totalSuggestions = Cardinality(done)
                /\ row.averageConfidence.num * Cardinality(done)
                      = SumOfScores(done) * row.averageConfidence.den

\* Two completions of one path with different scores have both finished, and
\* the average lies between the scores.
C17_Witness ==
    /\ \A p \in Callers : completing[p] = Idle
    /\ \E r \in analytics :
          /\ r.totalSuggestions = 2
          /\ r.averageConfidence = Frac(75, 1)

C18_CompletedIffStamped ==
    /\ \A a \in assessments : (a.status = "COMPLETED") <=> (a.completedAt # NULL)
    /\ \A a \in assessments, careerPath \in CareerPaths, score \in Scores :
          a.status = "COMPLETED" =>
             complete(assessments, a.id, careerPath, score)
                = [assessments |-> assessments, status |-> "ConflictError"]
    /\ Cardinality({a \in assessments : a.status = "COMPLETED"}) =
          Cardinality({p \in Callers : completing[p] # Idle})
          + AnalyticsRow(analytics, "engineer").totalSuggestions
          + AnalyticsRow(analytics, "designer").totalSuggestions

C18_CompletesOnce ==
    /\ \A a \in assessments : a.status = "COMPLETED" => a \in assessments'
    /\ \A b \in assessments' \ assessments :
          \/ b.status = "IN_PROGRESS" /\ ~ \E a \in assessments : a.id = b.id
          \/ /\ b.status = "COMPLETED" /\ b.completedAt # NULL
             /\ \E a \in assessments : a.id = b.id /\ a.status = "IN_PROGRESS"

\* C18: an assessment starts IN_PROGRESS and completeAssessment moves it only
\* from IN_PROGRESS to COMPLETED, setting completedAt in the same step; status
\* is COMPLETED exactly when completedAt is set, a COMPLETED assessment never
\* returns to IN_PROGRESS, and completing a COMPLETED assessment does not
\* count a second suggestion.
C18_CompletedForGood ==
    [](C18_CompletedIffStamped) /\ [][C18_CompletesOnce]_vars

\* The completion of a COMPLETED assessment was just refused, and another
\* assessment is still in progress.
C18_Witness ==
    /\ resp = Response("completeAssessment", "ConflictError")
    /\ \E a, b \in assessments :
          a.status = "COMPLETED" /\ b.status = "IN_PROGRESS"

C20_ShareGivesFreshCode ==
    \A a \in assessments, shareCode \in ShareCodes :
       \E r \in {shareAssessment(assessments, a.id, shareCode)} :
          IF \E b \in assessments : b.id # a.id /\ b.shareCode = shareCode
          THEN r.status = "ConflictError" /\ r.assessments = assessments
          ELSE /\ r.status = "OK"
               /\ \E b \in r.assessments :
                     /\ b.id = a.id /\ b.shareCode = shareCode /\ b.isShared
                     /\ r.assessments = (assessments \ {a}) \cup {b}
                     /\ \A c \in r.assessments \ {b} : c.shareCode # shareCode

C20_CodesUnique ==
    /\ \A a, b \in assessments :
          (a.shareCode # NullText /\ a.shareCode = b.shareCode) => a = b
    /\ \A a \in assessments : a.isShared => a.shareCode # NullText

\* C20: shareAssessment gives the assessment a shareCode that no other
\* assessment holds and sets isShared; a generated code that another
\* assessment holds makes the call fail with ConflictError and change
\* nothing; no two assessments ever have the same non-null shareCode and
\* every shared assessment has a shareCode.
C20_ShareCodeUnique == C20_ShareGivesFreshCode /\ C20_CodesUnique

\* A share whose code another assessment holds was just refused, and two
\* assessments are shared under different codes.
C20_Witness ==
    /\ resp.op = "shareAssessment" /\ resp.status = "ConflictError"
    /\ \E a, b \in assessments :
          /\ a.isShared /\ b.isShared /\ a.shareCode # b.shareCode
          /\ resp.shareCode \in {a.shareCode, b.shareCode}

\* The child rows that the design removes with a row of a table, and the
\* child rows that make it refuse the delete.
C19_CascadesTo(table) ==
    CASE table = "User" -> {"UserEvent"}
      [] table = "Event" -> {"UserEvent"}
      [] table = "Course" -> {"Lesson", "LearningObjective"}
      [] OTHER -> {}

C19_RestrictedBy(table) ==
    CASE table = "User" ->
            {"PersonalDiscovery", "ScholarshipAssessment", "UserProfile",
             "Subscription", "PaymentProof", "Feedback", "Notification",
             "TrackProgress", "Enrollment", "CV"}
      [] table = "Plan" -> {"Subscription"}
      [] table = "Subscription" -> {"PaymentProof"}
      [] table = "Category" -> {"Course"}
      [] table = "Course" -> {"Enrollment", "LessonCompletion"}
      [] table = "Lesson" -> {"LessonCompletion"}
      [] table = "Enrollment" -> {"LessonCompletion"}
      [] table = "career_users" -> {"career_assessments"}
      [] table = "career_assessments" -> {"user_feedback"}
      [] OTHER -> {}

\* The same, with the three cascades that the design names and no other.
C19_CascadesToAsStated(table) == C19_CascadesTo(table) \ {"LearningObjective"}

C19_RestrictedByAsStated(table) ==
    IF table = "Course" THEN C19_RestrictedBy(table) \cup {"LearningObjective"}
    ELSE C19_RestrictedBy(table)

\* No child row references a missing parent.
C19_NoDangling(S) ==
    \A c \in S, fk \in ForeignKeys :
       fk.child = c.table => Row(fk.parent, c.id) \in S

\* A delete is refused exactly while a restricting child is stored, and
\* otherwise removes the row and the children it cascades to, and no other.
C19_DeleteFollows(cascades(_), restricts(_)) ==
    \A row \in store :
       \E r \in {deleteRow(store, row)} :
          IF \E c \in store : c.table \in restricts(row.table) /\ c.id = row.id
          THEN r.status = "ForeignKeyError" /\ r.rows = store
          ELSE /\ r.status = "Deleted"
               /\ r.rows = {c \in store :
                              ~(c.id = row.id
                                /\ c.table \in {row.table} \cup cascades(row.table))}
               /\ C19_NoDangling(r.rows)

\* C19: a delete cascades for Lesson->Course, LearningObjective->Course,
\* UserEvent->User and UserEvent->Event and is restricted for every other
\* foreign key; a delete is refused while a restricting child references the
\* row or a row the delete would cascade to; after any sequence of creates
\* and deletes no child row references a missing parent.
C19_CascadeOrRestrict ==
    C19_NoDangling(store) /\ C19_DeleteFollows(C19_CascadesTo, C19_RestrictedBy)

\* C19 with the cascades as the design lists them: Lesson->Course,
\* UserEvent->User and UserEvent->Event only.
C19_CascadeOnlyThree ==
    C19_NoDangling(store)
    /\ C19_DeleteFollows(C19_CascadesToAsStated, C19_RestrictedByAsStated)

\* The delete of a course was just refused: its lesson would go with it, but
\* a lesson completion still references the lesson.
C19_Witness ==
    /\ resp = Response("DELETE", "ForeignKeyError")
    /\ {Row("Lesson", "r1"), Row("LessonCompletion", "r1")} \subseteq store

FeedbacksOf(F, assessmentId) == {f \in F : f.assessmentId = assessmentId}

C21_AtMostOne ==
    \A a \in assessments : Cardinality(FeedbacksOf(feedbacks, a.id)) <= 1

C21_SubmitOnce ==
    \A a \in assessments, rating \in Ratings, isRelevant \in BOOLEAN,
       wouldRecommend \in BOOLEAN :
       \E r \in {submitFeedback(assessments, feedbacks, a.id, rating,
                                isRelevant, wouldRecommend)} :
          IF FeedbacksOf(feedbacks, a.id) = {}
          THEN /\ r.status = "Created"
               /\ \E f \in r.feedbacks :
                     /\ f.assessmentId = a.id /\ f.rating = rating
                     /\ f.isRelevant = isRelevant
                     /\ f.wouldRecommend = wouldRecommend
                     /\ r.feedbacks = feedbacks \cup {f}
                     /\ f \notin feedbacks
          ELSE r.status = "ConflictError" /\ r.feedbacks = feedbacks

C21_FeedbackStays == \A f \in feedbacks : f \in feedbacks'

\* C21: at most one feedback row per career assessment in every reachable
\* state; the first submitFeedback for an assessment inserts it and every
\* later one fails with ConflictError and leaves the stored feedback unchanged.
C21_OneFeedback ==
    [](C21_AtMostOne /\ C21_SubmitOnce) /\ [][C21_FeedbackStays]_vars

\* A second submission was just refused while every assessment has its
\* feedback.
C21_Witness ==
    /\ resp = Response("submitFeedback", "ConflictError")
    /\ Cardinality(assessments) >= 2
    /\ \A a \in assessments : FeedbacksOf(feedbacks, a.id) # {}


\* C22: every HTTP 500 of a plan handler carries the same generic notice as
\* its error field, whatever failed underneath: the body neither depends on
\* nor contains the underlying error's message.
C22_GenericNotice ==
    /\ \A session \in Sessions, json \in SampleBodies, fault \in Faults :
          \E r \in {POST(plans, session, json, fault).res} :
             r.status = 500 => r.body = [error |-> <<"Internal Server Error">>]
    /\ \A session \in Sessions, page \in Params, pageSize \in Params :
          \E r \in {GET(plans, session, page, pageSize)} :
             r.status = 500 => r.body = [error |-> "Internal Server Error"]


C24_Refused == Json(401, [error |-> "Unauthorized"])

\* C24: GET /plans is admin-only: without a session, or with a session whose
\* role is not ADMIN, it answers 401 "Unauthorized" whatever the page and
\* pageSize parameters and the stored plans are (they are not read), so no
\* plan and no count reaches a non-admin; an admin is never answered 401.
C24_ListAdminOnly ==
    \A session \in Sessions, page \in Params, pageSize \in Params :
       \E r \in {GET(plans, session, page, pageSize)} :
          IF session = NoSession \/ session.user.role # "ADMIN"
          THEN r = C24_Refused
          ELSE r.status # 401

\* A signed-in user who is no admin has just been refused the list of a
\* table that holds plans.
C24_Witness ==
    /\ resp.op = "GET /plans" /\ resp.status = 401
    /\ plans # {}
    /\ GET(plans, Session("USER"), Str(<<"1">>), Str(<<"2">>)) = C24_Refused
    /\ GET(plans, Admin, Str(<<"1">>), Str(<<"2">>)).status = 200


C25_RequestButtons == {"onRegister", "onUnregister"}

\* What each card offers, by the order of the four cases.
C25_Offer ==
    \A e \in Events :
       \E b \in {EventCard(e)} :
          /\ currentSession = NoSession =>
                b = Button("Login to Register", FALSE, "handleLoginRedirect")
          /\ currentSession # NoSession /\ statusQueries[e].isLoading =>
                b.disabled /\ b.onClick = "none"
          /\ currentSession # NoSession /\ statusQueries[e] = Loaded(TRUE) =>
                b.onClick = "onUnregister"
          /\ currentSession # NoSession /\ statusQueries[e] = Loaded(FALSE) =>
                b.onClick = "onRegister"
          /\ b.onClick \in C25_RequestButtons =>
                (b.disabled <=> registering[ThePage] # Idle)

\* A status request that fails gives false, whatever the table holds.
C25_FailedIsNotRegistered ==
    \A u \in Users, e \in Events :
       /\ useRegistrationStatus(userEvents, u, e, "failed") = FALSE
       /\ renderButton(TRUE, FALSE,
                       useRegistrationStatus(userEvents, u, e, "failed"),
                       FALSE)
          = Button("Register Now", FALSE, "onRegister")

\* A request starts only from the enabled button that offers it, so never
\* without a session.
C25_RequestsFromButtons ==
    /\ registering[ThePage] = Idle /\ registering'[ThePage] # Idle =>
          /\ currentSession # NoSession
          /\ EventCard(registering'[ThePage].eventId)
             = Button("Register Now", FALSE, "onRegister")
    /\ \A u \in unregistering' \ unregistering :
          /\ currentSession # NoSession
          /\ EventCard(u.eventId).onClick = "onUnregister"
          /\ ~EventCard(u.eventId).disabled
    /\ currentSession = NoSession =>
          /\ unregistering' \subseteq unregistering
          /\ registering'[ThePage] \in {Idle, registering[ThePage]}

\* C25: an event card offers exactly one action: without a session "Login to
\* Register" (and no register or unregister request starts); while the status
\* query is loading a disabled button; with status true Unregister; otherwise
\* Register.  A failed status request counts as not registered.  The Register
\* and Unregister buttons of all cards are disabled exactly while a register
\* request is pending; a pending unregister request disables none.
C25_CardOffersOneAction ==
    [](C25_Offer /\ C25_FailedIsNotRegistered)
    /\ [][C25_RequestsFromButtons]_vars

\* A register request is pending while an unregister request is too: the card
\* of the registered event and the card of the other are both disabled.
C25_Witness ==
    /\ registering[ThePage] # Idle /\ unregistering # {}
    /\ EventCard("e1") = Button("Unregistering...", TRUE, "onUnregister")
    /\ EventCard("e2") = Button("Registering...", TRUE, "onRegister")

\* An unregister request is pending and no register request: both cards are
\* enabled.
C25_UnregisterPending ==
    /\ registering[ThePage] = Idle /\ unregistering # {}
    /\ EventCard("e1") = Button("Unregister", FALSE, "onUnregister")
    /\ EventCard("e2") = Button("Register Now", FALSE, "onRegister")


\* isEnrolling, and with it the disabled confirm action, tells whether a run
\* is in flight; there is never more than one.
C23_OneRunInFlight ==
    /\ isEnrolling <=> runs # {}
    /\ ConfirmDisabled <=> runs # {}
    /\ Cardinality(runs) <= 1

\* A run starts with isEnrolling going from false to true, and ends with it
\* false and exactly one toast: the success toast and a refresh for an ok
\* response, the error toast and no refresh otherwise.
C23_RunStep ==
    /\ \A run \in runs' :
          (~ \E old \in runs : old.n = run.n) =>
             ~isEnrolling /\ isEnrolling' /\ run.pc = "sent"
    /\ \A run \in runs :
          (~ \E new \in runs' : new.n = run.n) =>
             /\ run.pc \in {"ok", "notOk", "threw"}
             /\ ~isEnrolling'
             /\ IF run.pc = "ok"
                THEN toast' = EnrolledToast /\ refreshed'
                ELSE toast' = EnrollFailedToast /\ ~refreshed'
    /\ isEnrolling' # isEnrolling => runs' # runs

\* C23: every run of handleEnroll sets isEnrolling before the request is sent
\* and clears it after the request settles (ok, not ok or thrown), so after
\* every click isEnrolling is eventually false again; the confirm action is
\* disabled while a request is in flight, so the button never has two; and
\* each run shows exactly one of the success toast (with a refresh) and the
\* error toast.
C23_EnrollingSettles ==
    /\ [](C23_OneRunInFlight)
    /\ [][C23_RunStep]_vars
    /\ (isEnrolling ~> ~isEnrolling)

\* A run whose fetch threw has ended with the error toast, after an earlier
\* run had enrolled the user.
C23_Witness ==
    /\ toast = EnrollFailedToast /\ ~refreshed /\ ~isEnrolling /\ runs = {}
    /\ enrollments # {}

====
